---------------------------- MODULE Spec2Model ----------------------------
(* Tactile map generator: terrain solid, boundary walls, capital markers  *)
(* with numbers, mesh combination and the 2x2 card splitter with puzzle   *)
(* connectors (src/core/generate.py and the mesh_generator variants).     *)
(*                                                                        *)
(* Lengths are integers in units of 0.05 mm (MM units per millimetre), so *)
(* every constant of the program (0.1 mm tolerance, 0.5 mm clearance,     *)
(* 4.25 mm offsets) is an exact integer.  Face indices are 0-based as in  *)
(* the program; vertex sequences are 1-based, vertex k is verts[k + 1].   *)
EXTENDS Integers, Sequences, FiniteSets, TLC

VARIABLES
    \* ---- terrain mesh builder (create_terrain_mesh / create_flat_bottom_mesh)
    t_pc,           \* position in the builder
    variant,        \* which of the two builders runs
    ny, nx,         \* Z.shape
    top_faces,      \* faces emitted by the top-surface loop
    bottom_faces,   \* faces emitted by the bottom-surface loop
    side_faces,     \* faces emitted by the four side-wall loops
    t_vertices,     \* np.vstack([top_verts, bottom_verts])
    t_out,          \* what the call produced: a mesh, or the exception raised
    \* ---- inputs of the pipeline
    grid,           \* X, Y, Z of load_elevation
    gdf_filtered,   \* country geometries (load_boundaries_filtered)
    CAPITALS,       \* the markers: (name, lon, lat, area)
    \* ---- create_capitals_mesh
    c_pc,           \* position in create_capitals_mesh
    c_i,            \* markers processed so far by its loop
    c_all_verts,    \* all_verts: list of vertex blocks
    c_all_faces,    \* all_faces: list of shifted face blocks
    c_vert_offset,  \* vert_offset
    bump_count,
    current_number,
    skipped_names,
    number_legend,
    position,       \* result of find_number_position in the last iteration
    c_out,          \* (vertices, faces, number_legend) returned
    \* ---- create_boundary_walls
    b_pc,           \* position in create_boundary_walls
    b_row,          \* rows of the frame processed so far
    b_all_verts,    \* all_verts: list of vertex blocks
    b_all_faces,    \* all_faces: list of shifted face blocks
    b_vert_offset,  \* vert_offset
    b_out,          \* (vertices, faces) returned
    \* ---- main
    m_pc,           \* position in main
    terrain,        \* terrain_verts, terrain_faces
    all_verts,      \* the combined mesh
    all_faces,
    \* ---- split_mesh_to_cards
    s_idx,          \* card regions processed so far
    cards,          \* cards: one entry per processed region
    s_kept,         \* per region, the positions in faces of its card_faces_list
    \* ---- create_wave_pattern / create_tactile_wave_pattern
    w_pc,           \* position in the wave generator
    w_variant,      \* which of the two generators runs
    w_coord,        \* Y per row (create_wave_pattern), lon_grid per column (tactile)
    water_mask,     \* water_mask[i][j]
    eroded_water,   \* the mask while binary_erosion runs, and its result
    w_iter,         \* erosion iterations done
    waves,          \* the wave height grid
    \* ---- save_stl and a reader of the file it writes
    f_pc,           \* position in save_stl / in the reader
    f_mesh,         \* vertices and faces passed to save_stl
    f_bytes,        \* the bytes written to the file so far
    f_k,            \* faces written so far
    f_parsed,       \* what the reader got from the file
    g_pc,           \* the text renderers: "idle", "loop", "done"
    g_kind,         \* "create_digit_mesh" or "create_braille_text"
    g_text,         \* digit_str / text, a sequence of characters
    g_at,           \* <<x, y, z>> of the call
    g_i,            \* characters handled so far
    g_acc,          \* all_verts / all_faces stacked so far (vert_offset = Len(g_acc.verts))
    g_out,          \* the returned mesh
    r_pc,           \* a wall builder on one ring: "idle", "call", "done"
    r_builder,      \* "create_wall_segment" or "create_polygon_wall"
    r_points,       \* the ring handed to the builder: <<x, y, base_z>> per point
    r_out,          \* the returned mesh
    e_pc,           \* the sign-based water mask: "idle", "mask", "done"
    e_script,       \* "create_3d_map" or "diagnose_full_process"
    elevation,      \* the elevation grid, metres
    elev_water_mask, \* the water mask taken from the elevation
    \* ---- create_tactile_wave_lines
    l_pc,           \* "idle", "rows" (outer while), "segments" (inner while), "done"
    lon_line,       \* lon_grid[0, :]
    lat_line,       \* lat_grid[:, 0]
    line_mask,      \* water_mask[lat_idx][lon_idx] of the call
    current_lat,    \* latitude of the current wave row
    current_lon,    \* longitude where the current segment starts
    wave_lines,     \* the segments appended so far
    \* ---- create_legend_card
    k_pc,           \* "idle", "loop", "done"
    k_legend,       \* number_legend of the call: <<num, name>> per entry
    k_idx,          \* entries laid out so far
    k_all_verts,    \* all_verts: one vertex array per part
    k_all_faces,    \* all_faces: one face array per part
    k_vert_offset,  \* vert_offset
    k_out           \* the returned mesh

tvars == <<t_pc, variant, ny, nx, top_faces, bottom_faces, side_faces, t_vertices, t_out>>
invars == <<grid, gdf_filtered, CAPITALS>>
cvars == <<c_pc, c_i, c_all_verts, c_all_faces, c_vert_offset, bump_count, current_number,
           skipped_names, number_legend, position, c_out>>
bvars == <<b_pc, b_row, b_all_verts, b_all_faces, b_vert_offset, b_out>>
mvars == <<m_pc, terrain, all_verts, all_faces>>
svars == <<s_idx, cards, s_kept>>
wvars == <<w_pc, w_variant, w_coord, water_mask, eroded_water, w_iter, waves>>
(* the operations that are exercised on their own *)
fvars == <<f_pc, f_mesh, f_bytes, f_k, f_parsed>>
gvars == <<g_pc, g_kind, g_text, g_at, g_i, g_acc, g_out>>
rvars == <<r_pc, r_builder, r_points, r_out>>
evars == <<e_pc, e_script, elevation, elev_water_mask>>
lvars == <<l_pc, lon_line, lat_line, line_mask, current_lat, current_lon, wave_lines>>
kvars == <<k_pc, k_legend, k_idx, k_all_verts, k_all_faces, k_vert_offset, k_out>>
morevars == <<evars, lvars, kvars>>
auxvars == <<wvars, fvars, gvars, rvars, morevars>>
vars == <<tvars, invars, cvars, bvars, mvars, svars, auxvars>>

nonTerrain == <<invars, cvars, bvars, mvars, svars, auxvars>>
nonCapitals == <<tvars, invars, bvars, mvars, svars, auxvars>>
nonWalls == <<tvars, invars, cvars, mvars, svars, auxvars>>
nonMain == <<tvars, invars, bvars, svars, auxvars>>
nonAux == <<tvars, invars, cvars, bvars, mvars, svars>>
nonWaves == <<nonAux, fvars, gvars, rvars, morevars>>
nonStl == <<nonAux, wvars, gvars, rvars, morevars>>
nonGlyphs == <<nonAux, wvars, fvars, rvars, morevars>>
nonRing == <<nonAux, wvars, fvars, gvars, morevars>>
nonMore == <<nonAux, wvars, fvars, gvars, rvars>>
nonWater == <<nonMore, lvars, kvars>>
nonLines == <<nonMore, evars, kvars>>
nonLegend == <<nonMore, evars, lvars>>

-----------------------------------------------------------------------------
(* Bounds of the model *)
MaxNy == 4
MaxNx == 4
MaxCapitals == 3
MaxGridN == 3
MaxMainCapitals == 1

(* Units *)
MM == 20

(* Program constants (src/core/constants.py), in model units *)
CARD_WIDTH_MM == 200 * MM
CARD_HEIGHT_MM == 160 * MM
FULL_WIDTH_MM == CARD_WIDTH_MM * 2
FULL_HEIGHT_MM == CARD_HEIGHT_MM * 2
BASE_THICKNESS_MM == 6 * MM
TAB_HEIGHT_MM == 3 * MM
TAB_DEPTH_MM == 4 * MM
TAB_WIDTH_MM == 8 * MM
SLOT_CLEARANCE_MM == MM \div 2
BOUNDARY_HEIGHT_MM == 5 * MM
BOUNDARY_WIDTH_MM == (5 * MM) \div 2
FLAT_BASE_THICKNESS == 2 * MM

-----------------------------------------------------------------------------
(* Generic helpers *)

RECURSIVE Flatten(_)
Flatten(ss) ==
    IF ss = <<>> THEN <<>>
    ELSE IF Len(ss) = 1 THEN ss[1]
    ELSE Flatten(SubSeq(ss, 1, Len(ss) \div 2)) \o Flatten(SubSeq(ss, Len(ss) \div 2 + 1, Len(ss)))

Abs(a) == IF a < 0 THEN -a ELSE a

NoMesh == [verts |-> <<>>, faces |-> <<>>]

(* Python's None as a position, and the value before any search was made *)
None == <<>>
Unset == <<"unset">>

(* faces + offset *)
ShiftFaces(fs, off) == [k \in 1..Len(fs) |-> <<fs[k][1] + off, fs[k][2] + off, fs[k][3] + off>>]

(* The three directed edges of every face, in face order *)
DirEdges(fs) ==
    [k \in 1..(3 * Len(fs)) |->
        LET f == fs[((k - 1) \div 3) + 1]
            e == (k - 1) % 3
        IN  IF e = 0 THEN <<f[1], f[2]>>
            ELSE IF e = 1 THEN <<f[2], f[3]>>
            ELSE <<f[3], f[1]>>]

EdgeUses(es, a, b) == Cardinality({k \in 1..Len(es) : es[k] = <<a, b>>})

(* every undirected edge is used by exactly two faces *)
IsClosed(fs) ==
    LET es == DirEdges(fs)
    IN  \A k \in 1..Len(es) :
            EdgeUses(es, es[k][1], es[k][2]) + EdgeUses(es, es[k][2], es[k][1]) = 2

(* ... and the two faces run along it in opposite directions *)
IsOriented(fs) ==
    LET es == DirEdges(fs)
    IN  \A k \in 1..Len(es) :
            /\ EdgeUses(es, es[k][1], es[k][2]) = 1
            /\ EdgeUses(es, es[k][2], es[k][1]) = 1

IndicesInRange(fs, n) ==
    \A k \in 1..Len(fs) : \A c \in 1..3 : fs[k][c] >= 0 /\ fs[k][c] < n

-----------------------------------------------------------------------------
(* Terrain mesh builder *)

(* A grid is [X |-> X[0, :], Y |-> Y[:, 0], Z |-> rows of heights]: X and Y *)
(* come from np.meshgrid, so X[i, j] = X[0, j] and Y[i, j] = Y[i, 0].       *)
GridStep == 100 * MM
FlatGrid(rows, cols) ==
    [X |-> [j \in 1..cols |-> (j - 1) * GridStep],
     Y |-> [i \in 1..rows |-> (i - 1) * GridStep],
     Z |-> [i \in 1..rows |-> [j \in 1..cols |-> 0]]]

(* np.column_stack([X.ravel(), Y.ravel(), Z.ravel()]): row-major order *)
TopVerts(g, rows, cols) ==
    [k \in 1..(rows * cols) |->
        LET i == ((k - 1) \div cols) + 1
            j == ((k - 1) % cols) + 1
        IN  <<g.X[j], g.Y[i], g.Z[i][j]>>]

(* the same with np.full_like(Z, -base_thickness) as heights *)
BottomVerts(g, rows, cols, base_thickness) ==
    [k \in 1..(rows * cols) |->
        LET i == ((k - 1) \div cols) + 1
            j == ((k - 1) % cols) + 1
        IN  <<g.X[j], g.Y[i], -base_thickness>>]

BaseThickness(v) == IF v = "create_terrain_mesh" THEN BASE_THICKNESS_MM ELSE FLAT_BASE_THICKNESS

TerrainVertices(g, rows, cols, v) ==
    TopVerts(g, rows, cols) \o BottomVerts(g, rows, cols, BaseThickness(v))

(* the two triangles of one quad of the top surface *)
TopQuad(v, p1, p2, p3, p4) ==
    IF v = "create_terrain_mesh"
    THEN << <<p1, p2, p4>>, <<p1, p4, p3>> >>
    ELSE << <<p1, p2, p3>>, <<p2, p4, p3>> >>

(* the two triangles of one quad of the bottom surface (reversed winding) *)
BottomQuad(v, p1, p2, p3, p4) ==
    IF v = "create_terrain_mesh"
    THEN << <<p1, p4, p2>>, <<p1, p3, p4>> >>
    ELSE << <<p1, p3, p2>>, <<p2, p3, p4>> >>

(* side quads: front and right share one winding, back and left the other *)
FrontQuad_flipped(t1, t2, b1, b2) == << <<t1, t2, b1>>, <<t2, b1, b2>> >>
FrontQuad(t1, t2, b1, b2) == << <<t1, b1, t2>>, <<t2, b1, b2>> >>
BackQuad(t1, t2, b1, b2) == << <<t1, t2, b1>>, <<t2, b2, b1>> >>
LeftQuad(t1, t2, b1, b2) == << <<t1, t2, b1>>, <<t2, b2, b1>> >>
RightQuad(t1, t2, b1, b2) == << <<t1, b1, t2>>, <<t2, b1, b2>> >>

(* for i in range(rows - 1): for j in range(cols - 1): two faces per quad *)
SurfaceFaces(v, rows, cols, base, top) ==
    Flatten([q \in 1..(IF rows > 1 /\ cols > 1 THEN (rows - 1) * (cols - 1) ELSE 0) |->
        LET i  == (q - 1) \div (cols - 1)
            j  == (q - 1) % (cols - 1)
            p1 == base + i * cols + j
            p2 == base + i * cols + j + 1
            p3 == base + (i + 1) * cols + j
            p4 == base + (i + 1) * cols + j + 1
        IN  IF top THEN TopQuad(v, p1, p2, p3, p4) ELSE BottomQuad(v, p1, p2, p3, p4)])

SkirtCols_short(cols) == cols - 2
SkirtCols(cols) == cols - 1
SkirtRows(rows) == rows - 1

FrontFaces(rows, cols, n_top) ==
    Flatten([k \in 1..SkirtCols(cols) |->
        LET j == k - 1 IN FrontQuad(j, j + 1, n_top + j, n_top + j + 1)])

BackFaces(rows, cols, n_top) ==
    Flatten([k \in 1..SkirtCols(cols) |->
        LET j == k - 1
            r == (rows - 1) * cols
        IN  BackQuad(r + j, r + j + 1, n_top + r + j, n_top + r + j + 1)])

LeftFaces(rows, cols, n_top) ==
    Flatten([k \in 1..SkirtRows(rows) |->
        LET i == k - 1
        IN  LeftQuad(i * cols, (i + 1) * cols, n_top + i * cols, n_top + (i + 1) * cols)])

RightFaces(rows, cols, n_top) ==
    Flatten([k \in 1..SkirtRows(rows) |->
        LET i == k - 1
            c == cols - 1
        IN  RightQuad(i * cols + c, (i + 1) * cols + c,
                      n_top + i * cols + c, n_top + (i + 1) * cols + c)])

(* np.vstack of three Python lists of faces: an empty list is a (1, 0)     *)
(* array, so mixing empty and non-empty lists raises ValueError, and three *)
(* empty lists give a (3, 0) array                                         *)
VStackFaces(a, b, c) ==
    IF a = <<>> /\ b = <<>> /\ c = <<>>
    THEN [status |-> "returned", faces |-> << <<>>, <<>>, <<>> >>]
    ELSE IF a = <<>> \/ b = <<>> \/ c = <<>>
    THEN [status |-> "ValueError", faces |-> <<>>]
    ELSE [status |-> "returned", faces |-> a \o b \o c]

(* what the builder hands back at its return statement *)
TerrainReturn(v, verts, a, b, c) ==
    IF v = "create_terrain_mesh"
    THEN [status |-> "returned", vertices |-> verts, faces |-> a \o b \o c]
    ELSE LET st == VStackFaces(a, b, c)
         IN  [status |-> st.status,
              vertices |-> IF st.status = "returned" THEN verts ELSE <<>>,
              faces |-> st.faces]

(* the whole builder as a function of its grid (used by the pipeline) *)
create_terrain_mesh(g, rows, cols) ==
    LET n_top == rows * cols
    IN  [verts |-> TerrainVertices(g, rows, cols, "create_terrain_mesh"),
         faces |-> SurfaceFaces("create_terrain_mesh", rows, cols, 0, TRUE)
                   \o SurfaceFaces("create_terrain_mesh", rows, cols, n_top, FALSE)
                   \o FrontFaces(rows, cols, n_top) \o BackFaces(rows, cols, n_top)
                   \o LeftFaces(rows, cols, n_top) \o RightFaces(rows, cols, n_top)]

(* the parts of the program that a specification does not run stay idle *)
NoInputs == grid = FlatGrid(0, 0) /\ gdf_filtered = <<>> /\ CAPITALS = <<>>

CapitalsFresh ==
    /\ c_i = 0 /\ c_all_verts = <<>> /\ c_all_faces = <<>>
    /\ c_vert_offset = 0 /\ bump_count = 0 /\ current_number = 0
    /\ skipped_names = <<>> /\ number_legend = <<>> /\ position = Unset
    /\ c_out = "none"

CapitalsIdle == c_pc = "idle" /\ CapitalsFresh

TerrainIdle ==
    /\ t_pc = "idle" /\ variant = "create_terrain_mesh" /\ ny = 0 /\ nx = 0
    /\ top_faces = <<>> /\ bottom_faces = <<>> /\ side_faces = <<>> /\ t_vertices = <<>>
    /\ t_out = [status |-> "running", vertices |-> <<>>, faces |-> <<>>]

WallsFresh ==
    /\ b_row = 0 /\ b_all_verts = <<>> /\ b_all_faces = <<>> /\ b_vert_offset = 0
    /\ b_out = "none"

WallsIdle == b_pc = "idle" /\ WallsFresh

SplitIdle == s_idx = 0 /\ cards = <<>> /\ s_kept = <<>>

MainIdle == m_pc = "idle" /\ terrain = NoMesh /\ all_verts = <<>> /\ all_faces = <<>> /\ SplitIdle

WavesFresh == eroded_water = <<>> /\ w_iter = 0 /\ waves = <<>>

WavesIdle ==
    /\ w_pc = "idle" /\ w_variant = "create_wave_pattern" /\ w_coord = <<>> /\ water_mask = <<>>
    /\ WavesFresh

StlFresh == f_bytes = <<>> /\ f_k = 0 /\ f_parsed = <<>>

StlIdle == f_pc = "idle" /\ f_mesh = NoMesh /\ StlFresh

GlyphsFresh == g_i = 0 /\ g_acc = NoMesh /\ g_out = NoMesh

GlyphsIdle ==
    /\ g_pc = "idle" /\ g_kind = "create_digit_mesh" /\ g_text = <<>> /\ g_at = <<0, 0, 0>>
    /\ GlyphsFresh

RingIdle == r_pc = "idle" /\ r_builder = "create_wall_segment" /\ r_points = <<>> /\ r_out = NoMesh

WaterIdle == e_pc = "idle" /\ e_script = "create_3d_map" /\ elevation = <<>> /\ elev_water_mask = <<>>

LinesIdle ==
    /\ l_pc = "idle" /\ lon_line = <<>> /\ lat_line = <<>> /\ line_mask = <<>>
    /\ current_lat = 0 /\ current_lon = 0 /\ wave_lines = <<>>

LegendIdle ==
    /\ k_pc = "idle" /\ k_legend = <<>> /\ k_idx = 0 /\ k_all_verts = <<>> /\ k_all_faces = <<>>
    /\ k_vert_offset = 0 /\ k_out = NoMesh

MoreIdle == WaterIdle /\ LinesIdle /\ LegendIdle

AuxIdle == WavesIdle /\ StlIdle /\ GlyphsIdle /\ RingIdle /\ MoreIdle

TerrainInit ==
    /\ t_pc = "vertices"
    /\ variant \in {"create_terrain_mesh", "create_flat_bottom_mesh"}
    /\ ny \in 1..MaxNy
    /\ nx \in 1..MaxNx
    /\ top_faces = <<>>
    /\ bottom_faces = <<>>
    /\ side_faces = <<>>
    /\ t_vertices = <<>>
    /\ t_out = [status |-> "running", vertices |-> <<>>, faces |-> <<>>]
    /\ NoInputs
    /\ CapitalsIdle
    /\ WallsIdle
    /\ MainIdle
    /\ AuxIdle

BuildVertices ==
    /\ t_pc = "vertices"
    /\ t_vertices' = TerrainVertices(FlatGrid(ny, nx), ny, nx, variant)
    /\ t_pc' = "top"
    /\ UNCHANGED <<variant, ny, nx, top_faces, bottom_faces, side_faces, t_out>>
    /\ UNCHANGED nonTerrain

TopSurface ==
    /\ t_pc = "top"
    /\ top_faces' = SurfaceFaces(variant, ny, nx, 0, TRUE)
    /\ t_pc' = "bottom"
    /\ UNCHANGED <<variant, ny, nx, bottom_faces, side_faces, t_vertices, t_out>>
    /\ UNCHANGED nonTerrain

BottomSurface ==
    /\ t_pc = "bottom"
    /\ bottom_faces' = SurfaceFaces(variant, ny, nx, ny * nx, FALSE)
    /\ t_pc' = "front"
    /\ UNCHANGED <<variant, ny, nx, top_faces, side_faces, t_vertices, t_out>>
    /\ UNCHANGED nonTerrain

FrontSkirt ==
    /\ t_pc = "front"
    /\ side_faces' = side_faces \o FrontFaces(ny, nx, ny * nx)
    /\ t_pc' = "back"
    /\ UNCHANGED <<variant, ny, nx, top_faces, bottom_faces, t_vertices, t_out>>
    /\ UNCHANGED nonTerrain

BackSkirt ==
    /\ t_pc = "back"
    /\ side_faces' = side_faces \o BackFaces(ny, nx, ny * nx)
    /\ t_pc' = "left"
    /\ UNCHANGED <<variant, ny, nx, top_faces, bottom_faces, t_vertices, t_out>>
    /\ UNCHANGED nonTerrain

LeftSkirt ==
    /\ t_pc = "left"
    /\ side_faces' = side_faces \o LeftFaces(ny, nx, ny * nx)
    /\ t_pc' = "right"
    /\ UNCHANGED <<variant, ny, nx, top_faces, bottom_faces, t_vertices, t_out>>
    /\ UNCHANGED nonTerrain

RightSkirt ==
    /\ t_pc = "right"
    /\ side_faces' = side_faces \o RightFaces(ny, nx, ny * nx)
    /\ t_pc' = "return"
    /\ UNCHANGED <<variant, ny, nx, top_faces, bottom_faces, t_vertices, t_out>>
    /\ UNCHANGED nonTerrain

TerrainDone ==
    /\ t_pc = "return"
    /\ t_out' = TerrainReturn(variant, t_vertices, top_faces, bottom_faces, side_faces)
    /\ t_pc' = "done"
    /\ UNCHANGED <<variant, ny, nx, top_faces, bottom_faces, side_faces, t_vertices>>
    /\ UNCHANGED nonTerrain

TerrainNext ==
    \/ BuildVertices
    \/ TopSurface
    \/ BottomSurface
    \/ FrontSkirt
    \/ BackSkirt
    \/ LeftSkirt
    \/ RightSkirt
    \/ TerrainDone

-----------------------------------------------------------------------------
(* Coordinates.  Longitudes are integers in units of 1/1600 degree and     *)
(* latitudes in units of 1/6400 degree, so that mm_to_deg is exact on the  *)
(* model's length unit.                                                     *)
LON == 1600
LAT == 6400
MAP_BOUNDS == [min_lon |-> 5 * LON, min_lat |-> 12 * LAT, max_lon |-> 70 * LON, max_lat |-> 55 * LAT]

(* deg_to_mm: x = (lon - min_lon) / (max_lon - min_lon) * FULL_WIDTH_MM *)
deg_to_mm(lon, lat) ==
    <<((lon - MAP_BOUNDS.min_lon) * FULL_WIDTH_MM) \div (MAP_BOUNDS.max_lon - MAP_BOUNDS.min_lon),
      ((lat - MAP_BOUNDS.min_lat) * FULL_HEIGHT_MM) \div (MAP_BOUNDS.max_lat - MAP_BOUNDS.min_lat)>>

(* mm_to_deg: lon = min_lon + (x / FULL_WIDTH_MM) * (max_lon - min_lon) *)
mm_to_deg(x, y) ==
    <<MAP_BOUNDS.min_lon + (x * (MAP_BOUNDS.max_lon - MAP_BOUNDS.min_lon)) \div FULL_WIDTH_MM,
      MAP_BOUNDS.min_lat + (y * (MAP_BOUNDS.max_lat - MAP_BOUNDS.min_lat)) \div FULL_HEIGHT_MM>>

(* np.argmin(np.abs(a - v)): 0-based index of the first minimum *)
ArgminAbs(a, v) ==
    (CHOOSE k \in 1..Len(a) :
        /\ \A m \in 1..Len(a) : Abs(a[k] - v) <= Abs(a[m] - v)
        /\ \A m \in 1..(k - 1) : Abs(a[m] - v) > Abs(a[k] - v)) - 1

(* Z[yi, xi] at the grid point nearest to (x_mm, y_mm) *)
NearestZ(g, x_mm, y_mm) == g.Z[ArgminAbs(g.Y, y_mm) + 1][ArgminAbs(g.X, x_mm) + 1]

-----------------------------------------------------------------------------
(* Country geometry.  A polygon is an axis-aligned rectangle [x1, x2, y1,   *)
(* y2] in degree units (x1 < x2, y1 < y2), the empty polygon, or a sliver:  *)
(* a degenerate ring that runs from one point to another and back (y1 =     *)
(* y2); the polygons of a frame never touch, so the interior of their union *)
(* is the union of their interiors.  A geometry is [type, polys]; type      *)
(* "None" is a missing geometry.                                            *)
EmptyPolygon == [kind |-> "empty"]

(* list(poly.exterior.coords): the ring with its first point repeated *)
ExteriorCoords(poly) ==
    IF poly.kind = "empty" THEN <<>>
    ELSE IF poly.kind = "sliver"
    THEN << <<poly.x2, poly.y1>>, <<poly.x1, poly.y1>>, <<poly.x2, poly.y1>> >>
    ELSE << <<poly.x2, poly.y1>>, <<poly.x2, poly.y2>>, <<poly.x1, poly.y2>>,
            <<poly.x1, poly.y1>>, <<poly.x2, poly.y1>> >>

(* shapely: all_land.contains(Point(lon, lat)), the point is in the interior *)
LandContains(polys, lon, lat) ==
    \E k \in 1..Len(polys) :
        /\ polys[k].kind = "rect"
        /\ polys[k].x1 < lon /\ lon < polys[k].x2
        /\ polys[k].y1 < lat /\ lat < polys[k].y2

(* shapely: rect.intersects(poly.boundary) for the closed box rect: the box *)
(* meets the closed rectangle and does not lie in its interior              *)
RectIntersectsBoundary(lon1, lat1, lon2, lat2, poly) ==
    /\ poly.kind \in {"rect", "sliver"}
    /\ lon1 <= poly.x2 /\ poly.x1 <= lon2
    /\ lat1 <= poly.y2 /\ poly.y1 <= lat2
    /\ ~(poly.x1 < lon1 /\ lon2 < poly.x2 /\ poly.y1 < lat1 /\ lat2 < poly.y2)

(* every polygon of every geometry of the frame, None geometries left out *)
AllPolys(gdf) == Flatten([k \in 1..Len(gdf) |-> IF gdf[k].type = "None" THEN <<>> ELSE gdf[k].polys])

-----------------------------------------------------------------------------
(* Number placement *)

CAPITAL_HEIGHT_MM == 2 * MM
CAPITAL_DIAMETER_MM == 3 * MM
DigitHeight == 4 * MM
DigitWidth == (5 * MM) \div 2
DigitGap == MM \div 2
BBoxPadding == MM \div 2

(* str(n) for n >= 0, as a sequence of digit characters *)
DigitChars == <<"0", "1", "2", "3", "4", "5", "6", "7", "8", "9">>
RECURSIVE Str(_)
Str(n) == IF n < 10 THEN <<DigitChars[n + 1]>> ELSE Str(n \div 10) \o <<DigitChars[(n % 10) + 1]>>

(* total_width = len(digit_str) * (digit_width + 0.5) - 0.5 *)
TotalWidth(digit_str, digit_width) == Len(digit_str) * (digit_width + DigitGap) - DigitGap

get_digit_bbox(digit_str, x_mm, y_mm, digit_height, digit_width) ==
    [min_x |-> x_mm - TotalWidth(digit_str, digit_width) \div 2 - BBoxPadding,
     min_y |-> y_mm - digit_height \div 2 - BBoxPadding,
     max_x |-> x_mm + TotalWidth(digit_str, digit_width) \div 2 + BBoxPadding,
     max_y |-> y_mm + digit_height \div 2 + BBoxPadding]

(* TRUE when the number at (x_mm, y_mm) is on water or touches a boundary *)
check_number_collision(x_mm, y_mm, digit_str, gdf, all_land, digit_height, digit_width) ==
    LET bb     == get_digit_bbox(digit_str, x_mm, y_mm, digit_height, digit_width)
        p1     == mm_to_deg(bb.min_x, bb.min_y)
        p2     == mm_to_deg(bb.max_x, bb.max_y)
        center == mm_to_deg(x_mm, y_mm)
    IN  IF ~LandContains(all_land, center[1], center[2])
        THEN TRUE
        ELSE \E r \in 1..Len(gdf) :
                /\ gdf[r].type # "None"
                /\ \E k \in 1..Len(gdf[r].polys) :
                        RectIntersectsBoundary(p1[1], p1[2], p2[1], p2[2], gdf[r].polys[k])

(* the candidate positions, in the order they are tried *)
NumberPositions(capital_x, capital_y, digit_str, digit_height, digit_width) ==
    LET offset   == CAPITAL_DIAMETER_MM \div 2 + TotalWidth(digit_str, digit_width) \div 2 + (3 * MM) \div 2
        v_offset == digit_height \div 2 + CAPITAL_DIAMETER_MM \div 2 + MM
    IN  << <<capital_x + offset, capital_y>>,
           <<capital_x, capital_y + v_offset>>,
           <<capital_x, capital_y - v_offset>>,
           <<capital_x - offset, capital_y>> >>


(* for x, y in positions: return the first one without a collision *)
RECURSIVE FirstFree_last(_, _, _, _, _, _)
FirstFree_last(positions, digit_str, gdf, all_land, digit_height, digit_width) ==
    IF positions = <<>> THEN None
    ELSE LET later == FirstFree_last(Tail(positions), digit_str, gdf, all_land, digit_height, digit_width)
         IN  IF later # None THEN later
             ELSE IF ~check_number_collision(Head(positions)[1], Head(positions)[2], digit_str,
                                             gdf, all_land, digit_height, digit_width)
             THEN Head(positions)
             ELSE None

RECURSIVE FirstFree(_, _, _, _, _, _)
FirstFree(positions, digit_str, gdf, all_land, digit_height, digit_width) ==
    IF positions = <<>> THEN None
    ELSE IF ~check_number_collision(Head(positions)[1], Head(positions)[2], digit_str,
                                    gdf, all_land, digit_height, digit_width)
    THEN Head(positions)
    ELSE FirstFree(Tail(positions), digit_str, gdf, all_land, digit_height, digit_width)

find_number_position(capital_x, capital_y, digit_str, gdf, all_land) ==
    FirstFree(NumberPositions(capital_x, capital_y, digit_str, DigitHeight, DigitWidth),
              digit_str, gdf, all_land, DigitHeight, DigitWidth)

-----------------------------------------------------------------------------
(* Marker and digit geometry *)

(* np.vstack over a list of vertex (or face) blocks *)
VStack(blocks) == Flatten(blocks)

(* integer square root: np.sqrt on the lengths of the model, rounded down *)
RECURSIVE SqrtBetween(_, _, _)
SqrtBetween(n, lo, hi) ==
    IF hi - lo <= 1 THEN lo
    ELSE LET mid == (lo + hi) \div 2
         IN  IF mid * mid <= n THEN SqrtBetween(n, mid, hi) ELSE SqrtBetween(n, lo, mid)
Sqrt(n) == SqrtBetween(n, 0, IF n < 46340 THEN n + 1 ELSE 46340)

(* round(a / 1000) *)
Round1000(a) == (a + 500) \div 1000

(* 1000 * cos and 1000 * sin at multiples of 15 degrees, 0 .. 345 *)
Cos15 == <<1000, 966, 866, 707, 500, 259, 0, -259, -500, -707, -866, -966,
           -1000, -966, -866, -707, -500, -259, 0, 259, 500, 707, 866, 966>>
Cos1000(steps15) == Cos15[(steps15 % 24) + 1]
Sin1000(steps15) == Cos15[((steps15 + 18) % 24) + 1]

(* which segments are on: top, top-right, bottom-right, bottom, bottom-left, *)
(* top-left, middle                                                          *)
DIGIT_SEGMENTS ==
    [c \in {"0", "1", "2", "3", "4", "5", "6", "7", "8", "9"} |->
        CASE c = "0" -> <<1, 1, 1, 1, 1, 1, 0>>
          [] c = "1" -> <<0, 1, 1, 0, 0, 0, 0>>
          [] c = "2" -> <<1, 1, 0, 1, 1, 0, 1>>
          [] c = "3" -> <<1, 1, 1, 1, 0, 0, 1>>
          [] c = "4" -> <<0, 1, 1, 0, 0, 1, 1>>
          [] c = "5" -> <<1, 0, 1, 1, 0, 1, 1>>
          [] c = "6" -> <<1, 0, 1, 1, 1, 1, 1>>
          [] c = "7" -> <<1, 1, 1, 0, 0, 0, 0>>
          [] c = "8" -> <<1, 1, 1, 1, 1, 1, 1>>
          [] c = "9" -> <<1, 1, 1, 1, 0, 1, 1>>]

BoxFaces ==
    << <<0, 2, 1>>, <<1, 2, 3>>,
       <<4, 5, 6>>, <<5, 7, 6>>,
       <<0, 1, 4>>, <<1, 5, 4>>,
       <<2, 6, 3>>, <<3, 6, 7>>,
       <<0, 4, 2>>, <<2, 4, 6>>,
       <<1, 3, 5>>, <<3, 7, 5>> >>

(* one segment of a digit as a box; length < 0.01 mm is length 0 here *)
create_segment_box(x1, y1, x2, y2, base_z, height, width) ==
    LET dx     == x2 - x1
        dy     == y2 - y1
        length == Sqrt(dx * dx + dy * dy)
    IN  IF length = 0 THEN NoMesh
        ELSE LET px == ((-dy) * (width \div 2)) \div length
                 py == (dx * (width \div 2)) \div length
             IN  [verts |-> << <<x1 + px, y1 + py, base_z>>, <<x1 - px, y1 - py, base_z>>,
                               <<x2 + px, y2 + py, base_z>>, <<x2 - px, y2 - py, base_z>>,
                               <<x1 + px, y1 + py, base_z + height>>, <<x1 - px, y1 - py, base_z + height>>,
                               <<x2 + px, y2 + py, base_z + height>>, <<x2 - px, y2 - py, base_z + height>> >>,
                  faces |-> BoxFaces]

(* seg_coords for half-height h and width w: (x1, y1, x2, y2) per segment *)
SegCoords(h, w) ==
    << <<0, h, w, h>>, <<w, h, w, 0>>, <<w, 0, w, -h>>, <<0, -h, w, -h>>,
       <<0, -h, 0, 0>>, <<0, 0, 0, h>>, <<0, 0, w, 0>> >>

(* append every non-empty mesh of the list, each shifted by the vertices *)
(* accumulated before it: the all_verts / all_faces / vert_offset idiom   *)
RECURSIVE VertsIn(_, _, _)
VertsIn(parts, lo, hi) ==
    IF lo > hi THEN 0
    ELSE IF lo = hi THEN Len(parts[lo].verts)
    ELSE VertsIn(parts, lo, (lo + hi) \div 2) + VertsIn(parts, (lo + hi) \div 2 + 1, hi)

(* the vertices of the parts before part k *)
VertsBefore(parts, k) == VertsIn(parts, 1, k - 1)

AppendAll(acc, meshes) ==
    LET parts == SelectSeq(meshes, LAMBDA m : Len(m.verts) > 0)
    IN  [verts |-> acc.verts \o Flatten([k \in 1..Len(parts) |-> parts[k].verts]),
         faces |-> acc.faces \o Flatten([k \in 1..Len(parts) |->
                       ShiftFaces(parts[k].faces, Len(acc.verts) + VertsBefore(parts, k))])]

(* the boxes of one digit of the string, idx 0-based *)
DigitBoxes(digit, idx, start_x, y_mm, base_z, digit_height, digit_width, thickness, line_width, spacing) ==
    IF digit \notin DOMAIN DIGIT_SEGMENTS THEN <<>>
    ELSE LET ddx  == start_x + idx * (digit_width + spacing)
             segs == DIGIT_SEGMENTS[digit]
             sc   == SegCoords(digit_height \div 2, digit_width)
         IN  Flatten([k \in 1..7 |->
                 IF segs[k] = 0 THEN <<>>
                 ELSE <<create_segment_box(ddx + sc[k][1], y_mm + sc[k][2],
                                           ddx + sc[k][3], y_mm + sc[k][4],
                                           base_z, thickness, line_width)>>])

create_digit_mesh(digit_str, x_mm, y_mm, base_z, digit_height, digit_width, thickness, line_width, spacing) ==
    LET total_width == Len(digit_str) * (digit_width + spacing) - spacing
        start_x     == x_mm - total_width \div 2
    IN  AppendAll(NoMesh,
            Flatten([k \in 1..Len(digit_str) |->
                DigitBoxes(digit_str[k], k - 1, start_x, y_mm, base_z,
                           digit_height, digit_width, thickness, line_width, spacing)]))

BumpRings == 6
BumpSegments == 12

(* hemisphere: top vertex, BumpRings rings of BumpSegments vertices, bottom centre *)
create_capital_bump(x_mm, y_mm, base_z, radius, height) ==
    LET ringVerts ==
            [k \in 1..(BumpRings * BumpSegments) |->
                LET ring == ((k - 1) \div BumpSegments) + 1
                    seg  == (k - 1) % BumpSegments
                    z    == base_z + Round1000(height * Cos1000(ring))
                    r    == Round1000(radius * Sin1000(ring))
                IN  <<x_mm + Round1000(r * Cos1000(2 * seg)),
                      y_mm + Round1000(r * Sin1000(2 * seg)), z>>]
        topFaces ==
            [k \in 1..BumpSegments |-> <<0, 1 + (k - 1), 1 + (k % BumpSegments)>>]
        ringFaces ==
            Flatten([k \in 1..((BumpRings - 1) * BumpSegments) |->
                LET ring == (k - 1) \div BumpSegments
                    seg  == (k - 1) % BumpSegments
                    next_seg == (seg + 1) % BumpSegments
                    v1 == 1 + ring * BumpSegments + seg
                    v2 == 1 + ring * BumpSegments + next_seg
                    v3 == 1 + (ring + 1) * BumpSegments + seg
                    v4 == 1 + (ring + 1) * BumpSegments + next_seg
                IN  << <<v1, v3, v2>>, <<v2, v3, v4>> >>])
        bottom_center_idx == 1 + BumpRings * BumpSegments
        last_ring_start   == 1 + (BumpRings - 1) * BumpSegments
        bottomFaces ==
            [k \in 1..BumpSegments |->
                <<bottom_center_idx, last_ring_start + (k % BumpSegments), last_ring_start + (k - 1)>>]
    IN  [verts |-> << <<x_mm, y_mm, base_z + height>> >> \o ringVerts \o << <<x_mm, y_mm, base_z>> >>,
         faces |-> topFaces \o ringFaces \o bottomFaces]

-----------------------------------------------------------------------------
(* create_capitals_mesh *)

(* area is in tenths: 1.0 is 10 *)
MIN_AREA_FOR_NUMBER == 10

InMapBounds(lon, lat) ==
    /\ MAP_BOUNDS.min_lon <= lon /\ lon <= MAP_BOUNDS.max_lon
    /\ MAP_BOUNDS.min_lat <= lat /\ lat <= MAP_BOUNDS.max_lat

(* area >= MIN_AREA_FOR_NUMBER *)
GetsNumber_strict(area) == area > MIN_AREA_FOR_NUMBER

GetsNumber(area) == area >= MIN_AREA_FOR_NUMBER

(* current_number after the placement attempt: advanced only when placed *)
NextNumber_always(current, pos) == current + 1
NextNumber(current, pos) == IF pos = None THEN current ELSE current + 1

(* skipped_names after the placement attempt *)
SkipRecord_never(skipped, name, pos) == skipped
SkipRecord(skipped, name, pos) == IF pos = None THEN Append(skipped, name) ELSE skipped

(* the digit mesh of a placed number, at the height of the grid under it *)
NumberMesh(g, number_str, pos) ==
    create_digit_mesh(number_str, pos[1], pos[2], NearestZ(g, pos[1], pos[2]),
                      DigitHeight, DigitWidth, (3 * MM) \div 2, (4 * MM) \div 5, (3 * MM) \div 2)

CapitalBump(g, x_mm, y_mm) ==
    create_capital_bump(x_mm, y_mm, NearestZ(g, x_mm, y_mm), CAPITAL_DIAMETER_MM \div 2, CAPITAL_HEIGHT_MM)

(* one iteration of: for i, (name, lon, lat, area) in enumerate(CAPITALS) *)
CapitalStep ==
    /\ c_pc = "loop"
    /\ c_i < Len(CAPITALS)
    /\ LET m        == CAPITALS[c_i + 1]
           xy       == deg_to_mm(m.lon, m.lat)
           bump     == CapitalBump(grid, xy[1], xy[2])
           all_land == AllPolys(gdf_filtered)
           pos      == find_number_position(xy[1], xy[2], Str(current_number + 1), gdf_filtered, all_land)
           num      == NextNumber(current_number, pos)
           digits   == NumberMesh(grid, Str(num), pos)
       IN  IF ~InMapBounds(m.lon, m.lat)
           THEN /\ position' = Unset
                /\ UNCHANGED <<c_all_verts, c_all_faces, c_vert_offset, bump_count,
                               current_number, skipped_names, number_legend>>
           ELSE IF ~GetsNumber(m.area)
           THEN /\ c_all_verts' = Append(c_all_verts, bump.verts)
                /\ c_all_faces' = Append(c_all_faces, ShiftFaces(bump.faces, c_vert_offset))
                /\ c_vert_offset' = c_vert_offset + Len(bump.verts)
                /\ bump_count' = bump_count + 1
                /\ position' = Unset
                /\ UNCHANGED <<current_number, skipped_names, number_legend>>
           ELSE IF pos = None
           THEN /\ c_all_verts' = Append(c_all_verts, bump.verts)
                /\ c_all_faces' = Append(c_all_faces, ShiftFaces(bump.faces, c_vert_offset))
                /\ c_vert_offset' = c_vert_offset + Len(bump.verts)
                /\ bump_count' = bump_count + 1
                /\ position' = pos
                /\ skipped_names' = SkipRecord(skipped_names, m.name, pos)
                /\ current_number' = num
                /\ UNCHANGED number_legend
           ELSE /\ bump_count' = bump_count + 1
                /\ position' = pos
                /\ skipped_names' = SkipRecord(skipped_names, m.name, pos)
                /\ current_number' = num
                /\ number_legend' = Append(number_legend, <<num, m.name>>)
                /\ IF Len(digits.verts) > 0
                   THEN /\ c_all_verts' = c_all_verts \o <<bump.verts, digits.verts>>
                        /\ c_all_faces' = c_all_faces \o
                               <<ShiftFaces(bump.faces, c_vert_offset),
                                 ShiftFaces(digits.faces, c_vert_offset + Len(bump.verts))>>
                        /\ c_vert_offset' = c_vert_offset + Len(bump.verts) + Len(digits.verts)
                   ELSE /\ c_all_verts' = Append(c_all_verts, bump.verts)
                        /\ c_all_faces' = Append(c_all_faces, ShiftFaces(bump.faces, c_vert_offset))
                        /\ c_vert_offset' = c_vert_offset + Len(bump.verts)
    /\ c_i' = c_i + 1
    /\ UNCHANGED <<c_pc, c_out>>
    /\ UNCHANGED nonCapitals

(* after the loop: stack the blocks, or return empty arrays *)
CapitalsReturn ==
    /\ c_pc = "loop"
    /\ c_i = Len(CAPITALS)
    /\ c_out' = IF c_all_verts # <<>>
                THEN [verts |-> VStack(c_all_verts), faces |-> VStack(c_all_faces), legend |-> number_legend]
                ELSE [verts |-> <<>>, faces |-> <<>>, legend |-> number_legend]
    /\ c_pc' = "done"
    /\ UNCHANGED <<c_i, c_all_verts, c_all_faces, c_vert_offset, bump_count, current_number,
                   skipped_names, number_legend, position>>
    /\ UNCHANGED nonCapitals


SpecTerrain == TerrainInit /\ [][TerrainNext]_vars

-----------------------------------------------------------------------------
(* create_boundary_walls and create_wall_segment *)

(* the four vertices of ring point i (0-based): inner-bottom, inner-top, *)
(* outer-bottom, outer-top                                               *)
WallPointVerts(points, i, height, half_w) ==
    LET n      == Len(points)
        x      == points[i + 1][1]
        y      == points[i + 1][2]
        base_z == points[i + 1][3]
        nxt    == points[((i + 1) % n) + 1]
        dx     == nxt[1] - x
        dy     == nxt[2] - y
        length == Sqrt(dx * dx + dy * dy)
        px     == IF length = 0 THEN 0 ELSE ((-dy) * half_w) \div length
        py     == IF length = 0 THEN half_w ELSE (dx * half_w) \div length
    IN  << <<x + px, y + py, base_z>>, <<x + px, y + py, base_z + height>>,
           <<x - px, y - py, base_z>>, <<x - px, y - py, base_z + height>> >>

(* inner wall, outer wall and top between ring point i and the next one *)
WallPointFaces_open(n, i) ==
    LET next_i == i + 1
        c_ib == i * 4
        c_it == i * 4 + 1
        c_ob == i * 4 + 2
        c_ot == i * 4 + 3
        n_ib == next_i * 4
        n_it == next_i * 4 + 1
        n_ob == next_i * 4 + 2
        n_ot == next_i * 4 + 3
    IN  << <<c_ib, n_ib, c_it>>, <<c_it, n_ib, n_it>>,
           <<c_ob, c_ot, n_ob>>, <<c_ot, n_ot, n_ob>>,
           <<c_it, n_it, c_ot>>, <<n_it, n_ot, c_ot>> >>
WallPointFaces(n, i) ==
    LET next_i == (i + 1) % n
        c_ib == i * 4
        c_it == i * 4 + 1
        c_ob == i * 4 + 2
        c_ot == i * 4 + 3
        n_ib == next_i * 4
        n_it == next_i * 4 + 1
        n_ob == next_i * 4 + 2
        n_ot == next_i * 4 + 3
    IN  << <<c_ib, n_ib, c_it>>, <<c_it, n_ib, n_it>>,
           <<c_ob, c_ot, n_ob>>, <<c_ot, n_ot, n_ob>>,
           <<c_it, n_it, c_ot>>, <<n_it, n_ot, c_ot>> >>

(* fewer than 3 points: no wall *)
RingTooShort_two(n) == n < 2
RingTooShort(n) == n < 3

create_wall_segment(points, height, width) ==
    IF RingTooShort(Len(points)) THEN NoMesh
    ELSE [verts |-> Flatten([k \in 1..Len(points) |-> WallPointVerts(points, k - 1, height, width \div 2)]),
          faces |-> Flatten([k \in 1..Len(points) |-> WallPointFaces(Len(points), k - 1)])]

(* points_mm: the ring without its repeated last point, in mm, each with *)
(* the height of the nearest grid point                                   *)
PointsMM_flat(g, coords) ==
    [k \in 1..(Len(coords) - 1) |->
        LET xy == deg_to_mm(coords[k][1], coords[k][2])
        IN  <<xy[1], xy[2], 0>>]
PointsMM(g, coords) ==
    [k \in 1..(Len(coords) - 1) |->
        LET xy == deg_to_mm(coords[k][1], coords[k][2])
        IN  <<xy[1], xy[2], NearestZ(g, xy[1], xy[2])>>]

(* the wall of one polygon, or no mesh when the ring is too short *)
PolygonWall(g, poly) ==
    LET coords == ExteriorCoords(poly)
    IN  IF RingTooShort(Len(coords)) THEN NoMesh
        ELSE IF RingTooShort(Len(PointsMM(g, coords))) THEN NoMesh
        ELSE create_wall_segment(PointsMM(g, coords), BOUNDARY_HEIGHT_MM, BOUNDARY_WIDTH_MM)

(* vert_offset after a block was appended *)
NextOffset_faces(off, m) == off + Len(m.faces)
NextOffset(off, m) == off + Len(m.verts)

(* the inner loop over the polygons of one row: [all_verts, all_faces, vert_offset] *)
RECURSIVE WallPolys(_, _, _)
WallPolys(acc, g, polys) ==
    IF polys = <<>> THEN acc
    ELSE LET w == PolygonWall(g, Head(polys))
         IN  IF Len(w.verts) > 0
             THEN WallPolys([all_verts |-> Append(acc.all_verts, w.verts),
                             all_faces |-> Append(acc.all_faces, ShiftFaces(w.faces, acc.vert_offset)),
                             vert_offset |-> NextOffset(acc.vert_offset, w)],
                            g, Tail(polys))
             ELSE WallPolys(acc, g, Tail(polys))

(* one iteration of: for idx, row in gdf.iterrows() *)
WallRow ==
    /\ b_pc = "loop"
    /\ b_row < Len(gdf_filtered)
    /\ LET geom == gdf_filtered[b_row + 1]
           acc  == WallPolys([all_verts |-> b_all_verts, all_faces |-> b_all_faces,
                              vert_offset |-> b_vert_offset],
                             grid, IF geom.type = "None" THEN <<>> ELSE geom.polys)
       IN  /\ b_all_verts' = acc.all_verts
           /\ b_all_faces' = acc.all_faces
           /\ b_vert_offset' = acc.vert_offset
    /\ b_row' = b_row + 1
    /\ UNCHANGED <<b_pc, b_out>>
    /\ UNCHANGED nonWalls

WallsReturn ==
    /\ b_pc = "loop"
    /\ b_row = Len(gdf_filtered)
    /\ b_out' = IF b_all_verts # <<>>
                THEN [verts |-> VStack(b_all_verts), faces |-> VStack(b_all_faces)]
                ELSE NoMesh
    /\ b_pc' = "done"
    /\ UNCHANGED <<b_row, b_all_verts, b_all_faces, b_vert_offset>>
    /\ UNCHANGED nonWalls

-----------------------------------------------------------------------------
(* Inputs of the marker specification: three countries that do not touch,  *)
(* a 3 x 3 elevation grid over the whole map, and markers placed so that   *)
(* each outcome of the placement search occurs.                            *)

(* a rectangle given in millimetres of the map, as a polygon in degrees *)
RectMM(x1, x2, y1, y2) ==
    [kind |-> "rect",
     x1 |-> mm_to_deg(x1 * MM, y1 * MM)[1], x2 |-> mm_to_deg(x2 * MM, y2 * MM)[1],
     y1 |-> mm_to_deg(x1 * MM, y1 * MM)[2], y2 |-> mm_to_deg(x2 * MM, y2 * MM)[2]]

(* a sliver from (x1, y) to (x2, y), in mm *)
SliverMM(x1, x2, y) ==
    [kind |-> "sliver",
     x1 |-> mm_to_deg(x1 * MM, y * MM)[1], x2 |-> mm_to_deg(x2 * MM, y * MM)[1],
     y1 |-> mm_to_deg(x1 * MM, y * MM)[2], y2 |-> mm_to_deg(x1 * MM, y * MM)[2]]

Polygon(r) == [type |-> "Polygon", polys |-> <<r>>]

LabelCountries ==
    << Polygon(RectMM(100, 130, 100, 130)),
       Polygon(RectMM(200, 230, 200, 212)),
       Polygon(RectMM(300, 310, 100, 110)) >>

LabelGrid ==
    [X |-> <<0, 200 * MM, 400 * MM>>,
     Y |-> <<0, 160 * MM, 320 * MM>>,
     Z |-> << <<0, 0, 0>>, <<0, MM, 2 * MM>>, <<0, 0, 3 * MM>> >>]

(* a marker at (x, y) millimetres of the map *)
MarkerMM(name, x, y, area) ==
    [name |-> name, lon |-> mm_to_deg(x * MM, y * MM)[1], lat |-> mm_to_deg(x * MM, y * MM)[2], area |-> area]

Markers ==
    { MarkerMM("Center", 115, 115, 500),
      MarkerMM("East", 124, 115, 10),
      MarkerMM("Corner", 124, 124, 20),
      MarkerMM("Strip", 224, 206, 15),
      MarkerMM("Tiny", 305, 105, 20),
      MarkerMM("Sea", 10, 10, 20),
      MarkerMM("Small", 115, 110, 8),
      MarkerMM("Cut", 199, 100, 8),
      [name |-> "Far", lon |-> 71 * LON, lat |-> 30 * LAT, area |-> 50] }

(* lists of distinct markers *)
MarkerLists(maxLen) ==
    UNION {{q \in [1..n -> Markers] : \A a, b \in 1..n : a # b => q[a] # q[b]} : n \in 0..maxLen}

LabelsInit ==
    /\ TerrainIdle
    /\ grid = LabelGrid
    /\ gdf_filtered = LabelCountries
    /\ CAPITALS \in MarkerLists(MaxCapitals)
    /\ c_pc = "loop"
    /\ CapitalsFresh
    /\ WallsIdle
    /\ MainIdle
    /\ AuxIdle

LabelsNext ==
    \/ CapitalStep
    \/ CapitalsReturn

SpecLabels == LabelsInit /\ [][LabelsNext]_vars


-----------------------------------------------------------------------------
(* Puzzle connectors: tabs, slots, slot walls *)

TabFaces ==
    << <<0, 2, 1>>, <<0, 3, 2>>,
       <<4, 5, 6>>, <<4, 6, 7>>,
       <<0, 1, 5>>, <<0, 5, 4>>,
       <<2, 3, 7>>, <<2, 7, 6>>,
       <<0, 4, 7>>, <<0, 7, 3>>,
       <<1, 2, 6>>, <<1, 6, 5>> >>

(* a box of footprint [xa, xb] x [ya, yb] between z_bottom and z_top *)
TabBox(xa, xb, ya, yb, z_bottom, z_top) ==
    << <<xa, ya, z_bottom>>, <<xb, ya, z_bottom>>, <<xb, yb, z_bottom>>, <<xa, yb, z_bottom>>,
       <<xa, ya, z_top>>, <<xb, ya, z_top>>, <<xb, yb, z_top>>, <<xa, yb, z_top>> >>

create_tab(x, y, direction) ==
    LET hw       == TAB_WIDTH_MM \div 2
        z_bottom == -BASE_THICKNESS_MM
        z_top    == -BASE_THICKNESS_MM + TAB_HEIGHT_MM
        td       == TAB_DEPTH_MM
    IN  IF direction = "right"
        THEN [verts |-> TabBox(x, x + td, y - hw, y + hw, z_bottom, z_top), faces |-> TabFaces]
        ELSE IF direction = "left"
        THEN [verts |-> TabBox(x - td, x, y - hw, y + hw, z_bottom, z_top), faces |-> TabFaces]
        ELSE IF direction = "up"
        THEN [verts |-> TabBox(x - hw, x + hw, y, y + td, z_bottom, z_top), faces |-> TabFaces]
        ELSE IF direction = "down"
        THEN [verts |-> TabBox(x - hw, x + hw, y - td, y, z_bottom, z_top), faces |-> TabFaces]
        ELSE NoMesh

(* (x_min, x_max, y_min, y_max) of the slot; 200 and 160 are literal in the code *)
get_slot_bounds_narrow(x, y, direction) ==
    LET hw == (TAB_WIDTH_MM - SLOT_CLEARANCE_MM) \div 2
        td == TAB_DEPTH_MM + SLOT_CLEARANCE_MM
    IN  IF direction = "left" THEN <<0, td, y - hw, y + hw>>
        ELSE IF direction = "bottom" THEN <<x - hw, x + hw, 0, td>>
        ELSE IF direction = "right" THEN <<200 * MM - td, 200 * MM, y - hw, y + hw>>
        ELSE IF direction = "top" THEN <<x - hw, x + hw, 160 * MM - td, 160 * MM>>
        ELSE None
get_slot_bounds(x, y, direction) ==
    LET hw == (TAB_WIDTH_MM + SLOT_CLEARANCE_MM) \div 2
        td == TAB_DEPTH_MM + SLOT_CLEARANCE_MM
    IN  IF direction = "left" THEN <<0, td, y - hw, y + hw>>
        ELSE IF direction = "bottom" THEN <<x - hw, x + hw, 0, td>>
        ELSE IF direction = "right" THEN <<200 * MM - td, 200 * MM, y - hw, y + hw>>
        ELSE IF direction = "top" THEN <<x - hw, x + hw, 160 * MM - td, 160 * MM>>
        ELSE None

get_slot_regions_left_only(card_idx, card_width, card_height) ==
    IF card_idx \in {1, 3} THEN <<get_slot_bounds(0, card_height \div 2, "left")>> ELSE <<>>
get_slot_regions_for_card(card_idx, card_width, card_height) ==
    LET h_center == card_height \div 2
        v_center == card_width \div 2
    IN  IF card_idx = 1 THEN <<get_slot_bounds(0, h_center, "left")>>
        ELSE IF card_idx = 2 THEN <<get_slot_bounds(v_center, 0, "bottom")>>
        ELSE IF card_idx = 3
        THEN <<get_slot_bounds(0, h_center, "left"), get_slot_bounds(v_center, 0, "bottom")>>
        ELSE <<>>

(* the tabs add_connectors_to_card creates for a card: (x, y, direction) *)
CardTabs(card_idx, card_width, card_height) ==
    LET h_center == card_height \div 2
        v_center == card_width \div 2
    IN  IF card_idx = 0 THEN << <<card_width, h_center, "right">>, <<v_center, card_height, "up">> >>
        ELSE IF card_idx = 1 THEN << <<v_center, card_height, "up">> >>
        ELSE IF card_idx = 2 THEN << <<card_width, h_center, "right">> >>
        ELSE <<>>

Quad(a, b, c, d) == <<a, b, c, d>>
QuadFacesA == << <<0, 1, 2>>, <<0, 2, 3>> >>
QuadFacesB == << <<0, 2, 1>>, <<0, 3, 2>> >>

(* the three inner walls of one slot, as a list of quads *)
SlotWallQuads(slot) ==
    LET x_min == slot[1]
        x_max == slot[2]
        y_min == slot[3]
        y_max == slot[4]
        zb    == -BASE_THICKNESS_MM
        zt    == -BASE_THICKNESS_MM + TAB_HEIGHT_MM
    IN  IF x_min < 2
        THEN << [verts |-> Quad(<<x_max, y_min, zb>>, <<x_max, y_max, zb>>, <<x_max, y_max, zt>>, <<x_max, y_min, zt>>),
                 faces |-> QuadFacesA],
                [verts |-> Quad(<<0, y_max, zb>>, <<x_max, y_max, zb>>, <<x_max, y_max, zt>>, <<0, y_max, zt>>),
                 faces |-> QuadFacesB],
                [verts |-> Quad(<<0, y_min, zb>>, <<x_max, y_min, zb>>, <<x_max, y_min, zt>>, <<0, y_min, zt>>),
                 faces |-> QuadFacesA] >>
        ELSE IF y_min < 2
        THEN << [verts |-> Quad(<<x_min, y_max, zb>>, <<x_max, y_max, zb>>, <<x_max, y_max, zt>>, <<x_min, y_max, zt>>),
                 faces |-> QuadFacesB],
                [verts |-> Quad(<<x_min, 0, zb>>, <<x_min, y_max, zb>>, <<x_min, y_max, zt>>, <<x_min, 0, zt>>),
                 faces |-> QuadFacesA],
                [verts |-> Quad(<<x_max, 0, zb>>, <<x_max, y_max, zb>>, <<x_max, y_max, zt>>, <<x_max, 0, zt>>),
                 faces |-> QuadFacesB] >>
        ELSE <<>>

create_slot_walls(slots) ==
    AppendAll(NoMesh, Flatten([k \in 1..Len(slots) |->
        IF slots[k] = None THEN <<>> ELSE SlotWallQuads(slots[k])]))

(* z <= slot_z_top and (x, y) inside one of the slots *)
point_in_slot(x, y, z, slots) ==
    IF z > -BASE_THICKNESS_MM + TAB_HEIGHT_MM THEN FALSE
    ELSE \E k \in 1..Len(slots) :
            /\ slots[k] # None
            /\ slots[k][1] <= x /\ x <= slots[k][2]
            /\ slots[k][3] <= y /\ y <= slots[k][4]

-----------------------------------------------------------------------------
(* Inner side walls and add_connectors_to_card *)

(* sorted(set(edge_verts), key=lambda p: p[0]); points with the same      *)
(* position are taken in ascending height                                 *)
PairLess(a, b) == a[1] < b[1] \/ (a[1] = b[1] /\ a[2] < b[2])
SortedPairs(S) ==
    [k \in 1..Cardinality(S) |->
        CHOOSE a \in S : Cardinality({b \in S : PairLess(b, a)}) = k - 1]

(* np.linspace(0, length, n_segments + 1) *)
WallSegments == 20
Linspace(length) == [k \in 1..(WallSegments + 1) |-> ((k - 1) * length) \div WallSegments]

EdgeTolerance == 3 * MM

(* (position along the edge, height) of the terrain vertices near the edge *)
EdgeVerts(card_verts, edge, card_width, card_height) ==
    LET near(v) == IF edge = "right" THEN Abs(v[1] - card_width) < EdgeTolerance
                   ELSE IF edge = "left" THEN Abs(v[1]) < EdgeTolerance
                   ELSE IF edge = "top" THEN Abs(v[2] - card_height) < EdgeTolerance
                   ELSE Abs(v[2]) < EdgeTolerance
        found  == {<<IF edge \in {"right", "left"} THEN card_verts[k][2] ELSE card_verts[k][1],
                     card_verts[k][3]>> :
                        k \in {j \in 1..Len(card_verts) : near(card_verts[j]) /\ card_verts[j][3] > 0}}
    IN  IF found = {}
        THEN [k \in 1..(WallSegments + 1) |->
                <<Linspace(IF edge \in {"right", "left"} THEN card_height ELSE card_width)[k], 0>>]
        ELSE SortedPairs(found)

(* the slot range along the edge: taken from the first slot of the list *)
SlotRange(edge, slots) ==
    IF slots = None THEN None
    ELSE IF \A k \in 1..Len(slots) : slots[k] = None THEN None
    ELSE LET slot == slots[CHOOSE k \in 1..Len(slots) :
                             slots[k] # None /\ \A j \in 1..(k - 1) : slots[j] = None]
         IN  IF edge \in {"right", "left"} THEN <<slot[3], slot[4]>> ELSE <<slot[1], slot[2]>>

(* the bottom of the wall segment [pos1, pos2]: the slot stays open *)
WallBottom_solid(pos1, pos2, slot_range) == -BASE_THICKNESS_MM
WallBottom(pos1, pos2, slot_range) ==
    IF slot_range # None /\ ~(pos2 <= slot_range[1] \/ pos1 >= slot_range[2])
    THEN -BASE_THICKNESS_MM + TAB_HEIGHT_MM
    ELSE -BASE_THICKNESS_MM

create_inner_side_wall(card_verts, edge, card_width, card_height, slots) ==
    IF edge \notin {"right", "left", "top", "bottom"} THEN NoMesh
    ELSE LET edge_verts == EdgeVerts(card_verts, edge, card_width, card_height)
             slot_range == SlotRange(edge, slots)
             seg(i) ==
                LET pos1 == edge_verts[i][1]
                    z1   == edge_verts[i][2]
                    pos2 == edge_verts[i + 1][1]
                    z2   == edge_verts[i + 1][2]
                    zb   == WallBottom(pos1, pos2, slot_range)
                IN  IF edge = "right"
                    THEN [verts |-> Quad(<<card_width, pos1, z1>>, <<card_width, pos2, z2>>,
                                         <<card_width, pos2, zb>>, <<card_width, pos1, zb>>),
                          faces |-> QuadFacesA]
                    ELSE IF edge = "left"
                    THEN [verts |-> Quad(<<0, pos1, z1>>, <<0, pos2, z2>>, <<0, pos2, zb>>, <<0, pos1, zb>>),
                          faces |-> QuadFacesB]
                    ELSE IF edge = "top"
                    THEN [verts |-> Quad(<<pos1, card_height, z1>>, <<pos2, card_height, z2>>,
                                         <<pos2, card_height, zb>>, <<pos1, card_height, zb>>),
                          faces |-> QuadFacesA]
                    ELSE [verts |-> Quad(<<pos1, 0, z1>>, <<pos2, 0, z2>>, <<pos2, 0, zb>>, <<pos1, 0, zb>>),
                          faces |-> QuadFacesB]
         IN  IF Len(edge_verts) < 2 THEN NoMesh
             ELSE AppendAll(NoMesh, [i \in 1..(Len(edge_verts) - 1) |-> seg(i)])

(* inner_edges: the edges on which a card meets other cards *)
InnerEdges(card_idx) ==
    IF card_idx = 0 THEN <<"right", "top">>
    ELSE IF card_idx = 1 THEN <<"left", "top">>
    ELSE IF card_idx = 2 THEN <<"right", "bottom">>
    ELSE IF card_idx = 3 THEN <<"left", "bottom">>
    ELSE <<>>

(* edge_slots: the slots that affect the edge, None when there are none *)
EdgeSlots(card_idx, edge, slots) ==
    LET onLeft(sl)   == sl # None /\ sl[1] < MM
        onBottom(sl) == sl # None /\ sl[3] < MM
    IN  IF slots = <<>> THEN None
        ELSE IF edge = "left" /\ card_idx \in {1, 3} THEN SelectSeq(slots, onLeft)
        ELSE IF edge = "bottom" /\ card_idx \in {2, 3} THEN SelectSeq(slots, onBottom)
        ELSE None

(* the card with its tabs, slot walls and inner side walls appended *)
add_connectors_to_card(card_verts, card_faces, card_idx, card_width, card_height) ==
    LET tabs  == CardTabs(card_idx, card_width, card_height)
        slots == get_slot_regions_for_card(card_idx, card_width, card_height)
        edges == InnerEdges(card_idx)
    IN  AppendAll([verts |-> card_verts, faces |-> card_faces],
            [k \in 1..Len(tabs) |-> create_tab(tabs[k][1], tabs[k][2], tabs[k][3])]
            \o (IF slots # <<>> THEN <<create_slot_walls(slots)>> ELSE <<>>)
            \o [k \in 1..Len(edges) |->
                    create_inner_side_wall(card_verts, edges[k], card_width, card_height,
                                           EdgeSlots(card_idx, edges[k], slots))])

-----------------------------------------------------------------------------
(* main: build the three meshes and combine them *)

(* the elevation grid over the whole map, rows x cols samples *)
HillZ(i, j) == (((i - 1) * (j - 1)) % 4) * MM
GridOf(rows, cols, hilly) ==
    [X |-> [j \in 1..cols |-> ((j - 1) * FULL_WIDTH_MM) \div (cols - 1)],
     Y |-> [i \in 1..rows |-> ((i - 1) * FULL_HEIGHT_MM) \div (rows - 1)],
     Z |-> [i \in 1..rows |-> [j \in 1..cols |-> IF hilly THEN HillZ(i, j) ELSE 0]]]

(* flat and hilly grids with the fewest and with the most rows and columns *)
MainGrids == {GridOf(r, c, h) : r \in {2, MaxGridN}, c \in {2, MaxGridN}, h \in BOOLEAN}

MainFrames ==
    { LabelCountries,
      << [type |-> "None", polys |-> <<>>],
         Polygon(EmptyPolygon),
         [type |-> "MultiPolygon",
          polys |-> <<RectMM(180, 220, 140, 180), EmptyPolygon, SliverMM(260, 280, 100),
                      RectMM(250, 300, 200, 250)>>] >>,
      <<>> }

(* the capitals the whole pipeline is run with: on land, on a card edge, *)
(* in a small country, off the map                                       *)
MainMarkers == {mk \in Markers : mk.name \in {"Center", "Strip", "Cut", "Far"}}

(* sub-lists of one table of capitals, listed west to east *)
MainMarkerLists(maxLen) ==
    {q \in MarkerLists(maxLen) :
        /\ \A k \in 1..Len(q) : q[k] \in MainMarkers
        /\ \A k \in 1..(Len(q) - 1) : q[k].lon < q[k + 1].lon}

MainInit ==
    /\ TerrainIdle
    /\ grid \in MainGrids
    /\ gdf_filtered \in MainFrames
    /\ CAPITALS \in MainMarkerLists(MaxMainCapitals)
    /\ CapitalsIdle
    /\ WallsIdle
    /\ m_pc = "terrain" /\ terrain = NoMesh /\ all_verts = <<>> /\ all_faces = <<>>
    /\ SplitIdle
    /\ AuxIdle

(* terrain_verts, terrain_faces = create_terrain_mesh(X, Y, Z); then the *)
(* call of create_boundary_walls starts                                   *)
MainTerrain ==
    /\ m_pc = "terrain"
    /\ terrain' = create_terrain_mesh(grid, Len(grid.Y), Len(grid.X))
    /\ m_pc' = "walls"
    /\ b_pc' = "loop"
    /\ UNCHANGED <<all_verts, all_faces, b_row, b_all_verts, b_all_faces, b_vert_offset, b_out>>
    /\ UNCHANGED <<tvars, invars, cvars, svars, auxvars>>

(* create_boundary_walls returned; the call of create_capitals_mesh starts *)
MainCapitals ==
    /\ m_pc = "walls" /\ b_pc = "done"
    /\ m_pc' = "capitals"
    /\ c_pc' = "loop"
    /\ UNCHANGED <<terrain, all_verts, all_faces>>
    /\ UNCHANGED <<c_i, c_all_verts, c_all_faces, c_vert_offset, bump_count, current_number,
                   skipped_names, number_legend, position, c_out>>
    /\ UNCHANGED <<tvars, invars, bvars, svars, auxvars>>

(* the offset a sub-mesh is shifted by when it is merged: len(all_verts) *)
CombineOffset(target_verts) == Len(target_verts)

(* all_verts = terrain_verts; all_faces = terrain_faces *)
CombineTerrain ==
    /\ m_pc = "capitals" /\ c_pc = "done"
    /\ all_verts' = terrain.verts
    /\ all_faces' = terrain.faces
    /\ m_pc' = "combine_boundary"
    /\ UNCHANGED terrain
    /\ UNCHANGED nonMain /\ UNCHANGED cvars

(* if len(boundary_verts) > 0: append the walls *)
CombineBoundary ==
    /\ m_pc = "combine_boundary"
    /\ IF Len(b_out.verts) > 0
       THEN /\ all_verts' = all_verts \o b_out.verts
            /\ all_faces' = all_faces \o ShiftFaces(b_out.faces, CombineOffset(all_verts))
       ELSE UNCHANGED <<all_verts, all_faces>>
    /\ m_pc' = "combine_capitals"
    /\ UNCHANGED terrain
    /\ UNCHANGED nonMain /\ UNCHANGED cvars

(* if len(capital_verts) > 0: append the markers *)
CombineCapitals ==
    /\ m_pc = "combine_capitals"
    /\ IF Len(c_out.verts) > 0
       THEN /\ all_verts' = all_verts \o c_out.verts
            /\ all_faces' = all_faces \o ShiftFaces(c_out.faces, CombineOffset(all_verts))
       ELSE UNCHANGED <<all_verts, all_faces>>
    /\ m_pc' = "split"
    /\ UNCHANGED terrain
    /\ UNCHANGED nonMain /\ UNCHANGED cvars

-----------------------------------------------------------------------------
(* split_mesh_to_cards *)

(* card_bounds[card_idx]: (x_min, y_min, x_max, y_max) *)
card_bounds ==
    << <<0, 0, CARD_WIDTH_MM, CARD_HEIGHT_MM>>,
       <<CARD_WIDTH_MM, 0, CARD_WIDTH_MM * 2, CARD_HEIGHT_MM>>,
       <<0, CARD_HEIGHT_MM, CARD_WIDTH_MM, CARD_HEIGHT_MM * 2>>,
       <<CARD_WIDTH_MM, CARD_HEIGHT_MM, CARD_WIDTH_MM * 2, CARD_HEIGHT_MM * 2>> >>

(* tol = 0.1 *)
SplitTol == 2

(* v_in: the vertex lies within the card bounds, up to tol *)
VertexInCard(v, b) ==
    /\ b[1] - SplitTol <= v[1] /\ v[1] <= b[3] + SplitTol
    /\ b[2] - SplitTol <= v[2] /\ v[2] <= b[4] + SplitTol

(* the face is appended to card_faces_list *)
FaceKept(vertices, face, b, slots) ==
    LET v0 == vertices[face[1] + 1]
        v1 == vertices[face[2] + 1]
        v2 == vertices[face[3] + 1]
        all_at_bottom ==
            /\ Abs(v0[3] + BASE_THICKNESS_MM) < SplitTol
            /\ Abs(v1[3] + BASE_THICKNESS_MM) < SplitTol
            /\ Abs(v2[3] + BASE_THICKNESS_MM) < SplitTol
        in_slot ==
            \/ point_in_slot(v0[1] - b[1], v0[2] - b[2], v0[3], slots)
            \/ point_in_slot(v1[1] - b[1], v1[2] - b[2], v1[3], slots)
            \/ point_in_slot(v2[1] - b[1], v2[2] - b[2], v2[3], slots)
    IN  /\ VertexInCard(v0, b) /\ VertexInCard(v1, b) /\ VertexInCard(v2, b)
        /\ ~(slots # <<>> /\ ~all_at_bottom /\ in_slot)

(* the positions (1-based) in faces of the faces of card_faces_list *)
KeptPositions(vertices, faces, card_idx) ==
    LET b     == card_bounds[card_idx + 1]
        slots == get_slot_regions_for_card(card_idx, CARD_WIDTH_MM, CARD_HEIGHT_MM)
        keep(p) == FaceKept(vertices, faces[p], b, slots)
    IN  SelectSeq([p \in 1..Len(faces) |-> p], keep)

(* new_verts and new_faces: the used vertices in ascending order of their *)
(* old index, moved to card-local coordinates, and the faces renumbered   *)
RemapCard_descending(vertices, faces, kept, b) ==
    LET used       == {faces[kept[k]][c] : k \in 1..Len(kept), c \in 1..3}
        isUsed(i)  == i \in used
        sortedUsed == SelectSeq([i \in 1..Len(vertices) |-> Len(vertices) - i], isUsed)
        old_to_new == [u \in used |-> (CHOOSE k \in 1..Len(sortedUsed) : sortedUsed[k] = u) - 1]
    IN  [verts |-> [k \in 1..Len(sortedUsed) |->
                        LET v == vertices[sortedUsed[k] + 1]
                        IN  <<v[1] - b[1], v[2] - b[2], v[3]>>],
         faces |-> [k \in 1..Len(kept) |->
                        LET f == faces[kept[k]]
                        IN  <<old_to_new[f[1]], old_to_new[f[2]], old_to_new[f[3]]>>]]
RemapCard(vertices, faces, kept, b) ==
    LET used       == {faces[kept[k]][c] : k \in 1..Len(kept), c \in 1..3}
        isUsed(i)  == i \in used
        sortedUsed == SelectSeq([i \in 1..Len(vertices) |-> i - 1], isUsed)
        old_to_new == [u \in used |-> (CHOOSE k \in 1..Len(sortedUsed) : sortedUsed[k] = u) - 1]
    IN  [verts |-> [k \in 1..Len(sortedUsed) |->
                        LET v == vertices[sortedUsed[k] + 1]
                        IN  <<v[1] - b[1], v[2] - b[2], v[3]>>],
         faces |-> [k \in 1..Len(kept) |->
                        LET f == faces[kept[k]]
                        IN  <<old_to_new[f[1]], old_to_new[f[2]], old_to_new[f[3]]>>]]

(* v = vertices[old_idx].copy(): the row that is translated is a copy, not *)
(* a view of the parent array                                              *)
RowIsView_alias(vertices, old_idx) == TRUE
RowIsView(vertices, old_idx) == FALSE

(* the parent array after the rows of one card were translated: a row      *)
(* changes only if the translated row is a view of it                      *)
ParentAfterRemap(vertices, faces, kept, b) ==
    LET used == {faces[kept[k]][c] : k \in 1..Len(kept), c \in 1..3}
    IN  [i \in 1..Len(vertices) |->
            IF (i - 1) \in used /\ RowIsView(vertices, i - 1)
            THEN <<vertices[i][1] - b[1], vertices[i][2] - b[2], vertices[i][3]>>
            ELSE vertices[i]]

(* the entry appended to cards for one region; tabs and slots record the   *)
(* connectors add_connectors_to_card created for it                        *)
SplitOneCard(vertices, faces, card_idx) ==
    LET kept == KeptPositions(vertices, faces, card_idx)
        own  == RemapCard(vertices, faces, kept, card_bounds[card_idx + 1])
        full == add_connectors_to_card(own.verts, own.faces, card_idx, CARD_WIDTH_MM, CARD_HEIGHT_MM)
    IN  [verts |-> full.verts, faces |-> full.faces,
         tabs  |-> CardTabs(card_idx, CARD_WIDTH_MM, CARD_HEIGHT_MM),
         slots |-> get_slot_regions_for_card(card_idx, CARD_WIDTH_MM, CARD_HEIGHT_MM)]

(* if not card_faces_list: cards.append((np.array([]), np.array([]))) *)
RecordEmptyCard_dropped(cs) == cs
RecordEmptyCard(cs) == Append(cs, [verts |-> <<>>, faces |-> <<>>, tabs |-> <<>>, slots |-> <<>>])

(* one iteration of: for card_idx, bounds in enumerate(card_bounds) *)
SplitCard ==
    /\ m_pc = "split"
    /\ s_idx < Len(card_bounds)
    /\ cards' = IF KeptPositions(all_verts, all_faces, s_idx) = <<>>
                THEN RecordEmptyCard(cards)
                ELSE Append(cards, SplitOneCard(all_verts, all_faces, s_idx))
    /\ s_kept' = Append(s_kept, KeptPositions(all_verts, all_faces, s_idx))
    /\ s_idx' = s_idx + 1
    /\ all_verts' = ParentAfterRemap(all_verts, all_faces, KeptPositions(all_verts, all_faces, s_idx),
                                     card_bounds[s_idx + 1])
    /\ UNCHANGED <<m_pc, terrain, all_faces>>
    /\ UNCHANGED <<tvars, invars, cvars, bvars, auxvars>>

(* return cards *)
SplitReturn ==
    /\ m_pc = "split"
    /\ s_idx = Len(card_bounds)
    /\ m_pc' = "done"
    /\ UNCHANGED <<terrain, all_verts, all_faces>>
    /\ UNCHANGED nonMain /\ UNCHANGED cvars

Next ==
    \/ MainTerrain
    \/ WallRow
    \/ WallsReturn
    \/ MainCapitals
    \/ CapitalStep
    \/ CapitalsReturn
    \/ CombineTerrain
    \/ CombineBoundary
    \/ CombineCapitals
    \/ SplitCard
    \/ SplitReturn

Init == MainInit

Spec == Init /\ [][Next]_vars

(* The end-to-end run: a 4 x 4 flat grid at height 0, one country whose    *)
(* boundary is a square ring, one marker                                   *)
EndToEndSquares ==
    { RectMM(100, 130, 100, 130), RectMM(50, 90, 50, 90),
      RectMM(190, 210, 150, 170), RectMM(300, 340, 200, 240) }

EndToEndInit ==
    /\ TerrainIdle
    /\ grid = GridOf(4, 4, FALSE)
    /\ \E sq \in EndToEndSquares : gdf_filtered = <<Polygon(sq)>>
    /\ \E mk \in Markers : CAPITALS = <<mk>>
    /\ CapitalsIdle
    /\ WallsIdle
    /\ m_pc = "terrain" /\ terrain = NoMesh /\ all_verts = <<>> /\ all_faces = <<>>
    /\ SplitIdle
    /\ AuxIdle

SpecEndToEnd == EndToEndInit /\ [][Next]_vars

-----------------------------------------------------------------------------
(* Wave texture: create_wave_pattern and create_tactile_wave_pattern *)

MaxWaveN == 7

WAVE_HEIGHT_MM == 2 * MM
WAVE_INTERVAL_MM == 4 * MM
(* wave_spacing_mm = 4.0 and wave_height = 0.3 of the tactile generator *)
TactileSpacing == 4 * MM
TactileHeight == (3 * MM) \div 10

(* the phase (c / interval) * 2 * pi, in steps of 15 degrees *)
PhaseSteps(c, interval) == (c * 24) \div interval

(* WAVE_HEIGHT_MM * 0.5 * (1 + np.sin(wave_phase)) *)
WaveValue(y) == (WAVE_HEIGHT_MM * (1000 + Sin1000(PhaseSteps(y, WAVE_INTERVAL_MM)))) \div 2000

(* np.sin(2 * np.pi * lon_grid / wave_spacing_mm) * wave_height *)
TactileValue(x) == Round1000(Sin1000(PhaseSteps(x, TactileSpacing)) * TactileHeight)

(* mask[i][j], False outside the array: border_value = 0 *)
MaskAt(mask, i, j) ==
    IF i < 1 \/ i > Len(mask) THEN FALSE
    ELSE IF j < 1 \/ j > Len(mask[i]) THEN FALSE
    ELSE mask[i][j]

(* a cell survives when it and its four neighbours are set: the default    *)
(* structuring element of binary_erosion                                   *)
ErodeCell_grow(mask, i, j) ==
    \/ MaskAt(mask, i, j)
    \/ MaskAt(mask, i - 1, j) \/ MaskAt(mask, i + 1, j)
    \/ MaskAt(mask, i, j - 1) \/ MaskAt(mask, i, j + 1)
ErodeCell(mask, i, j) ==
    /\ MaskAt(mask, i, j)
    /\ MaskAt(mask, i - 1, j) /\ MaskAt(mask, i + 1, j)
    /\ MaskAt(mask, i, j - 1) /\ MaskAt(mask, i, j + 1)

(* one iteration of binary_erosion *)
ErodeOnce_none(mask) == mask
ErodeOnce(mask) ==
    [i \in 1..Len(mask) |-> [j \in 1..Len(mask[i]) |-> ErodeCell(mask, i, j)]]

ErosionIterations == 3

(* the masks of the specification: water everywhere but on one rectangle  *)
(* of land, rows r1..r2 and columns c1..c2 (no land when r1 > r2)          *)
LandBlockMask(rows, cols, r1, r2, c1, c2) ==
    [i \in 1..rows |-> [j \in 1..cols |-> ~(r1 <= i /\ i <= r2 /\ c1 <= j /\ j <= c2)]]

WaveMasks(rows, cols) ==
    {LandBlockMask(rows, cols, 1, 0, 1, 0)} \cup
    {LandBlockMask(rows, cols, r1, r2, c1, c2) :
        r1 \in 1..rows, r2 \in 1..rows, c1 \in 1..cols, c2 \in 1..cols}

(* grid coordinates at a regular spacing *)
WaveSpacings == {MM \div 2, MM}
WaveCoords(n, spacing) == [k \in 1..n |-> (k - 1) * spacing]

WavesInit ==
    /\ w_pc = "start"
    /\ w_variant \in {"create_wave_pattern", "create_tactile_wave_pattern"}
    /\ \E rows \in 1..MaxWaveN, cols \in 1..MaxWaveN, spacing \in WaveSpacings :
          /\ water_mask \in WaveMasks(rows, cols)
          /\ w_coord = WaveCoords(IF w_variant = "create_wave_pattern" THEN rows ELSE cols, spacing)
    /\ WavesFresh
    /\ TerrainIdle /\ NoInputs /\ CapitalsIdle /\ WallsIdle /\ MainIdle /\ StlIdle /\ GlyphsIdle /\ RingIdle /\ MoreIdle

(* waves = np.zeros_like(X); binary_erosion starts from the water mask *)
WaveStart ==
    /\ w_pc = "start" /\ w_variant = "create_wave_pattern"
    /\ waves' = [i \in 1..Len(water_mask) |-> [j \in 1..Len(water_mask[i]) |-> 0]]
    /\ eroded_water' = water_mask
    /\ w_pc' = "erode"
    /\ UNCHANGED <<w_variant, w_coord, water_mask, w_iter>>
    /\ UNCHANGED nonWaves

(* one of the iterations of binary_erosion(water_mask, iterations=3) *)
WaveErode ==
    /\ w_pc = "erode" /\ w_iter < ErosionIterations
    /\ eroded_water' = ErodeOnce(eroded_water)
    /\ w_iter' = w_iter + 1
    /\ UNCHANGED <<w_pc, w_variant, w_coord, water_mask, waves>>
    /\ UNCHANGED nonWaves

(* waves = WAVE_HEIGHT_MM * 0.5 * (1 + np.sin(wave_phase)) *)
WavePhase ==
    /\ w_pc = "erode" /\ w_iter = ErosionIterations
    /\ waves' = [i \in 1..Len(water_mask) |-> [j \in 1..Len(water_mask[i]) |-> WaveValue(w_coord[i])]]
    /\ w_pc' = "clear"
    /\ UNCHANGED <<w_variant, w_coord, water_mask, eroded_water, w_iter>>
    /\ UNCHANGED nonWaves

(* waves[~eroded_water] = 0; return waves *)
WaveClear ==
    /\ w_pc = "clear"
    /\ waves' = [i \in 1..Len(waves) |-> [j \in 1..Len(waves[i]) |->
                    IF ~eroded_water[i][j] THEN 0 ELSE waves[i][j]]]
    /\ w_pc' = "done"
    /\ UNCHANGED <<w_variant, w_coord, water_mask, eroded_water, w_iter>>
    /\ UNCHANGED nonWaves

(* wave_pattern = np.sin(...) * wave_height *)
TactilePattern ==
    /\ w_pc = "start" /\ w_variant = "create_tactile_wave_pattern"
    /\ waves' = [i \in 1..Len(water_mask) |-> [j \in 1..Len(water_mask[i]) |-> TactileValue(w_coord[j])]]
    /\ w_pc' = "apply"
    /\ UNCHANGED <<w_variant, w_coord, water_mask, eroded_water, w_iter>>
    /\ UNCHANGED nonWaves

(* wave_pattern = wave_pattern * water_mask; return wave_pattern *)
TactileApply ==
    /\ w_pc = "apply"
    /\ waves' = [i \in 1..Len(waves) |-> [j \in 1..Len(waves[i]) |->
                    waves[i][j] * (IF water_mask[i][j] THEN 1 ELSE 0)]]
    /\ w_pc' = "done"
    /\ UNCHANGED <<w_variant, w_coord, water_mask, eroded_water, w_iter>>
    /\ UNCHANGED nonWaves

WavesNext ==
    \/ WaveStart
    \/ WaveErode
    \/ WavePhase
    \/ WaveClear
    \/ TactilePattern
    \/ TactileApply

SpecWaves == WavesInit /\ [][WavesNext]_vars

(* C11: the wave height grid returned by either wave generator is 0 at    *)
(* every cell whose water-mask entry is false.                             *)
Thm_C11_NoWavesOnLand ==
    w_pc = "done" =>
        \A i \in 1..Len(water_mask) : \A j \in 1..Len(water_mask[i]) :
            ~water_mask[i][j] => waves[i][j] = 0

Wit_C11_WavesBesideLand ==
    /\ w_pc = "done" /\ w_variant = "create_wave_pattern"
    /\ \E i \in 1..Len(water_mask) : \E j \in 1..Len(water_mask[i]) : ~water_mask[i][j]
    /\ \E i \in 1..Len(waves) : \E j \in 1..Len(waves[i]) : waves[i][j] > 0

-----------------------------------------------------------------------------
(* save_stl: the binary file, byte by byte *)

MaxStlVerts == 2
MaxStlFaces == 2

(* a coordinate c of this part stands for the float64 value c / 2^FracBits *)
FracBits == 4

RECURSIVE Pow2(_)
Pow2(k) == IF k = 0 THEN 1 ELSE 2 * Pow2(k - 1)

(* the e with 2^e <= a < 2^(e+1), for a >= 1 *)
RECURSIVE FloorLog2(_)
FloorLog2(a) == IF a < 2 THEN 0 ELSE 1 + FloorLog2(a \div 2)

(* np.float32(c): sign, biased exponent and 23-bit fraction, rounding the  *)
(* 24-bit significand to nearest, ties to even                             *)
Float32Fields(c) ==
    IF c = 0 THEN [sign |-> 0, exp |-> 0, frac |-> 0]
    ELSE LET a     == Abs(c)
             e     == FloorLog2(a)
             shift == e - 23
             q     == IF shift <= 0 THEN a * Pow2(-shift) ELSE a \div Pow2(shift)
             r     == IF shift <= 0 THEN 0 ELSE a % Pow2(shift)
             half  == IF shift <= 0 THEN 1 ELSE Pow2(shift - 1)
             up    == r > half \/ (r = half /\ q % 2 = 1)
             m24   == IF up THEN q + 1 ELSE q
             carry == m24 = Pow2(24)
         IN  [sign |-> IF c < 0 THEN 1 ELSE 0,
              exp  |-> (IF carry THEN e + 1 ELSE e) - FracBits + 127,
              frac |-> IF carry THEN 0 ELSE m24 - Pow2(23)]

(* .tobytes() of one float32, little-endian *)
Float32Bytes(c) ==
    LET f == Float32Fields(c)
    IN  <<f.frac % 256, (f.frac \div 256) % 256,
          (f.exp % 2) * 128 + f.frac \div 65536,
          f.sign * 128 + f.exp \div 2>>

(* np.float32(v).tobytes() of a vertex row: 12 bytes *)
VertexBytes(v) == Float32Bytes(v[1]) \o Float32Bytes(v[2]) \o Float32Bytes(v[3])

(* np.uint32(n).tobytes() and np.uint16(n).tobytes() *)
UInt32Bytes(n) == <<n % 256, (n \div 256) % 256, (n \div 65536) % 256, (n \div 16777216) % 256>>
UInt16Bytes(n) == <<n % 256, (n \div 256) % 256>>

(* b'\x00' * 80 *)
HeaderBytes == [k \in 1..80 |-> 0]

(* np.float32([0, 0, 0]).tobytes() *)
NormalBytes == Float32Bytes(0) \o Float32Bytes(0) \o Float32Bytes(0)

(* the attribute byte count *)
AttributeBytes_wide == UInt32Bytes(0)
AttributeBytes == UInt16Bytes(0)

(* what one iteration of the loop over faces writes *)
TriangleOrder_swapped(face) == <<face[1], face[3], face[2]>>
TriangleOrder(face) == <<face[1], face[2], face[3]>>

TriangleBytes(vertices, face) ==
    LET o == TriangleOrder(face)
    IN  NormalBytes
        \o VertexBytes(vertices[o[1] + 1])
        \o VertexBytes(vertices[o[2] + 1])
        \o VertexBytes(vertices[o[3] + 1])
        \o AttributeBytes

(* the vertices the meshes of this part are made of *)
StlVertexPool ==
    { <<0, 0, 0>>,
      <<16, -24, 3201>>,
      <<3201, 3201, 16>>,
      <<16777217, 8, -33554435>> }

(* faces k = 0 .. m-1 over nv vertices, starting from the triple (a, b, c) *)
StlFaces(nv, m, a, b, c) ==
    [k \in 1..m |-> <<(a + k - 1) % nv, (b + k - 1) % nv, (c + k - 1) % nv>>]

StlMeshes ==
    {NoMesh} \cup
    UNION {{[verts |-> vs, faces |-> StlFaces(nv, m, a, b, c)] :
                vs \in [1..nv -> StlVertexPool],
                m \in 0..MaxStlFaces, a \in 0..(nv - 1), b \in 0..(nv - 1), c \in 0..(nv - 1)} :
           nv \in 1..MaxStlVerts}

StlInit ==
    /\ f_pc = "open"
    /\ f_mesh \in StlMeshes
    /\ StlFresh
    /\ TerrainIdle /\ NoInputs /\ CapitalsIdle /\ WallsIdle /\ MainIdle /\ WavesIdle /\ GlyphsIdle /\ RingIdle /\ MoreIdle

(* the header and the number of triangles *)
StlHeader ==
    /\ f_pc = "open"
    /\ f_bytes' = HeaderBytes \o UInt32Bytes(Len(f_mesh.faces))
    /\ f_pc' = "faces"
    /\ UNCHANGED <<f_mesh, f_k, f_parsed>>
    /\ UNCHANGED nonStl

(* one iteration of: for face in faces *)
StlTriangle ==
    /\ f_pc = "faces" /\ f_k < Len(f_mesh.faces)
    /\ f_bytes' = f_bytes \o TriangleBytes(f_mesh.verts, f_mesh.faces[f_k + 1])
    /\ f_k' = f_k + 1
    /\ UNCHANGED <<f_pc, f_mesh, f_parsed>>
    /\ UNCHANGED nonStl

(* the with block ends: the file is closed *)
StlClose ==
    /\ f_pc = "faces" /\ f_k = Len(f_mesh.faces)
    /\ f_pc' = "saved"
    /\ UNCHANGED <<f_mesh, f_bytes, f_k, f_parsed>>
    /\ UNCHANGED nonStl

(* A reader of the binary triangle format: 80 bytes of header, the count,  *)
(* then 50 bytes per triangle                                              *)

(* the value of a little-endian float32, as a coordinate of this part *)
Float32Value(b) ==
    LET sign == b[4] \div 128
        exp  == (b[4] % 128) * 2 + b[3] \div 128
        frac == (b[3] % 128) * 65536 + b[2] * 256 + b[1]
        m24  == Pow2(23) + frac
        sh   == exp - 127 - 23 + FracBits
        mag  == IF exp = 0 THEN 0
                ELSE IF sh >= 0 THEN m24 * Pow2(sh) ELSE m24 \div Pow2(-sh)
    IN  IF sign = 1 THEN -mag ELSE mag

ReadUInt32(b) == b[1] + 256 * b[2] + 65536 * b[3] + 16777216 * b[4]
ReadUInt16(b) == b[1] + 256 * b[2]

(* the vertex stored in the 12 bytes that start at position at *)
ReadVertex(bytes, at) ==
    <<Float32Value(SubSeq(bytes, at, at + 3)),
      Float32Value(SubSeq(bytes, at + 4, at + 7)),
      Float32Value(SubSeq(bytes, at + 8, at + 11))>>

(* the k-th triangle record, k from 1 *)
ReadTriangle(bytes, k) ==
    LET base == 84 + 50 * (k - 1)
    IN  [normal    |-> ReadVertex(bytes, base + 1),
         vertices  |-> <<ReadVertex(bytes, base + 13), ReadVertex(bytes, base + 25),
                         ReadVertex(bytes, base + 37)>>,
         attribute |-> ReadUInt16(SubSeq(bytes, base + 49, base + 50))]

ReadStl(bytes) ==
    LET n == ReadUInt32(SubSeq(bytes, 81, 84))
    IN  [count |-> n, triangles |-> [k \in 1..n |-> ReadTriangle(bytes, k)]]

(* the written file is read back *)
StlRead ==
    /\ f_pc = "saved"
    /\ f_parsed' = ReadStl(f_bytes)
    /\ f_pc' = "read"
    /\ UNCHANGED <<f_mesh, f_bytes, f_k>>
    /\ UNCHANGED nonStl

StlNext ==
    \/ StlHeader
    \/ StlTriangle
    \/ StlClose
    \/ StlRead

SpecStl == StlInit /\ [][StlNext]_vars

(* d is c to float32 precision: within half a unit in the last place *)
Float32Close(c, d) ==
    LET e == IF c = 0 THEN 0 ELSE FloorLog2(Abs(c))
    IN  2 * Abs(d - c) <= Pow2(IF e > 23 THEN e - 23 ELSE 0)

VertexClose(v, w) == \A c \in 1..3 : Float32Close(v[c], w[c])

(* C12: for a mesh with n triangles save_stl writes 80 + 4 + 50 * n bytes: *)
(* the header, the count n as 4 bytes, and per triangle, in face order,    *)
(* 12 bytes of normal, 36 bytes with its three vertices and 2 attribute    *)
(* bytes that are zero.                                                    *)
Thm_C12_StlLayout ==
    f_pc = "saved" =>
        LET n == Len(f_mesh.faces)
        IN  /\ Len(f_bytes) = 80 + 4 + 50 * n
            /\ ReadUInt32(SubSeq(f_bytes, 81, 84)) = n
            /\ \A k \in 1..n :
                  LET base == 84 + 50 * (k - 1)
                      face == f_mesh.faces[k]
                  IN  /\ \A c \in 1..3 :
                            VertexClose(f_mesh.verts[face[c] + 1],
                                        ReadVertex(f_bytes, base + 13 + 12 * (c - 1)))
                      /\ f_bytes[base + 49] = 0 /\ f_bytes[base + 50] = 0

Wit_C12_TwoTrianglesSaved ==
    /\ f_pc = "saved"
    /\ Len(f_mesh.faces) = 2
    /\ Len(f_bytes) = 184
    /\ f_mesh.verts[f_mesh.faces[2][1] + 1][1] = 16777217

(* the vertices a reader of the file can tell apart *)
ParsedVertices == UNION {{f_parsed.triangles[k].vertices[c] : c \in 1..3} :
                            k \in 1..Len(f_parsed.triangles)}

(* C13 as stated: reading the file back gives the triangle count and the   *)
(* vertex count of the exported mesh, and the coordinates of each triangle *)
(* in the same order.                                                      *)
Cex_C13_RoundTripCounts ==
    f_pc = "read" =>
        /\ f_parsed.count = Len(f_mesh.faces)
        /\ Cardinality(ParsedVertices) = Len(f_mesh.verts)

(* C13, amended: reading the file back gives the triangle count of the     *)
(* exported mesh and, for each triangle in face order, its three vertices  *)
(* in the same order with coordinates equal to float32 precision; the file *)
(* holds three vertices per triangle and no vertex array.                  *)
Thm_C13_RoundTripTriangles ==
    f_pc = "read" =>
        /\ f_parsed.count = Len(f_mesh.faces)
        /\ Len(f_parsed.triangles) = Len(f_mesh.faces)
        /\ \A k \in 1..Len(f_mesh.faces) : \A c \in 1..3 :
              VertexClose(f_mesh.verts[f_mesh.faces[k][c] + 1], f_parsed.triangles[k].vertices[c])

Wit_C13_RoundedCoordinateRead ==
    /\ f_pc = "read"
    /\ f_parsed.count = 2
    /\ \E k \in 1..2 : \E c \in 1..3 :
          /\ f_mesh.verts[f_mesh.faces[k][c] + 1][1] = 16777217
          /\ f_parsed.triangles[k].vertices[c][1] = 16777216
    /\ \E k \in 1..2 : f_mesh.faces[k][2] # f_mesh.faces[k][3]

-----------------------------------------------------------------------------
(* Claims about the terrain mesh builder *)

(* C7: for every ny x nx grid with ny, nx >= 2 the terrain mesh is closed  *)
(* with consistent winding: every undirected edge belongs to exactly two   *)
(* triangles, which traverse it in opposite directions.                    *)
Thm_C7_TerrainClosedOriented ==
    (t_pc = "done" /\ ny >= 2 /\ nx >= 2) =>
        /\ t_out.status = "returned"
        /\ IsClosed(t_out.faces)
        /\ IsOriented(t_out.faces)

Wit_C7_TerrainBuilt ==
    /\ t_pc = "done" /\ ny = 3 /\ nx = 4
    /\ t_out.status = "returned" /\ Len(t_out.faces) > 0
    /\ IsOriented(t_out.faces)

(* C8: for every ny x nx grid with ny, nx >= 2 the builder returns exactly *)
(* 4*(ny-1)*(nx-1) + 2*((ny-1)+(nx-1))*2 triangles.                        *)
Thm_C8_TerrainFaceCount ==
    (t_pc = "done" /\ ny >= 2 /\ nx >= 2) =>
        /\ t_out.status = "returned"
        /\ Len(t_out.faces) = 4 * (ny - 1) * (nx - 1) + 2 * ((ny - 1) + (nx - 1)) * 2

Wit_C8_TerrainCounted ==
    /\ t_pc = "done" /\ ny = 4 /\ nx = 2 /\ Len(t_out.faces) = 28

(* C9: on a grid with ny < 2 or nx < 2 the builder fails with a            *)
(* DegenerateGrid error and never returns a mesh.                          *)
Cex_C9_DegenerateGridRejected ==
    (t_pc = "done" /\ (ny < 2 \/ nx < 2)) => t_out.status = "DegenerateGrid"

-----------------------------------------------------------------------------
(* Claims about create_capitals_mesh and the placement of numbers *)

(* position of a name in the marker list (0 when absent) *)
IndexOf(name) ==
    IF \E k \in 1..Len(CAPITALS) : CAPITALS[k].name = name
    THEN CHOOSE k \in 1..Len(CAPITALS) : CAPITALS[k].name = name
    ELSE 0

(* C4: the sequence numbers recorded in number_legend are exactly 1, 2,    *)
(* .., k in input order with no gaps or repeats, k being the number of     *)
(* labelled markers; a skipped marker does not advance the counter.        *)
Thm_C4_LegendDense ==
    /\ Len(number_legend) = current_number
    /\ \A k \in 1..Len(number_legend) :
          /\ number_legend[k][1] = k
          /\ IndexOf(number_legend[k][2]) \in 1..c_i
          /\ \A j \in 1..(k - 1) : IndexOf(number_legend[j][2]) < IndexOf(number_legend[k][2])
    /\ \A k \in 1..Len(skipped_names) :
          \A j \in 1..Len(number_legend) : number_legend[j][2] # skipped_names[k]

(* a skipped marker stands between two labelled ones *)
Wit_C4_SkipBetweenLabels ==
    /\ c_pc = "done"
    /\ Len(number_legend) = 2
    /\ Len(skipped_names) = 1
    /\ IndexOf(number_legend[1][2]) < IndexOf(skipped_names[1])
    /\ IndexOf(skipped_names[1]) < IndexOf(number_legend[2][2])

(* the four candidates of the marker all collide, stated on the geometry *)
AllFourCollide(m, digit_str) ==
    LET xy == deg_to_mm(m.lon, m.lat)
        cs == NumberPositions(xy[1], xy[2], digit_str, DigitHeight, DigitWidth)
    IN  \A k \in 1..4 :
            check_number_collision(cs[k][1], cs[k][2], digit_str, gdf_filtered,
                                   AllPolys(gdf_filtered), DigitHeight, DigitWidth)

(* C5: when all four candidate positions of a marker that qualifies for a  *)
(* number collide, the marker's name goes to the skip list, no digit       *)
(* geometry and no legend entry are emitted, and its bump is still emitted.*)
Thm_C5_SkipKeepsBump ==
    [][ (/\ c_pc = "loop" /\ c_i < Len(CAPITALS)
         /\ InMapBounds(CAPITALS[c_i + 1].lon, CAPITALS[c_i + 1].lat)
         /\ GetsNumber(CAPITALS[c_i + 1].area)
         /\ AllFourCollide(CAPITALS[c_i + 1], Str(current_number + 1)))
        =>
        (LET m  == CAPITALS[c_i + 1]
             xy == deg_to_mm(m.lon, m.lat)
         IN  /\ skipped_names' = Append(skipped_names, m.name)
             /\ number_legend' = number_legend
             /\ current_number' = current_number
             /\ c_all_verts' = Append(c_all_verts, CapitalBump(grid, xy[1], xy[2]).verts)
             /\ Len(c_all_faces') = Len(c_all_faces) + 1
             /\ bump_count' = bump_count + 1) ]_vars

(* a marker was skipped: only bumps were emitted and the legend is empty *)
Wit_C5_SkippedWithBump ==
    /\ c_i >= 1 /\ position = None
    /\ skipped_names = <<CAPITALS[c_i].name>>
    /\ number_legend = <<>>
    /\ bump_count >= 1 /\ Len(c_all_verts) = bump_count

(* collision of a candidate, stated on the geometry: the centre is not on  *)
(* land, or the padded box of the number meets a boundary ring             *)
Collides(x_mm, y_mm, digit_str) ==
    LET bb == get_digit_bbox(digit_str, x_mm, y_mm, DigitHeight, DigitWidth)
        lo == mm_to_deg(bb.min_x, bb.min_y)
        hi == mm_to_deg(bb.max_x, bb.max_y)
        c  == mm_to_deg(x_mm, y_mm)
        ps == AllPolys(gdf_filtered)
    IN  \/ ~LandContains(ps, c[1], c[2])
        \/ \E k \in 1..Len(ps) : RectIntersectsBoundary(lo[1], lo[2], hi[1], hi[2], ps[k])

(* the string the last placement was searched for *)
LastDigitStr == IF position = None THEN Str(current_number + 1) ELSE Str(current_number)

(* C6: find_number_position tries the candidates in the order right, top,  *)
(* bottom, left and returns the first one without a collision; it returns  *)
(* None only when all four collide.                                        *)
Thm_C6_FirstFreeCandidate ==
    (c_i >= 1 /\ position # Unset) =>
        LET m  == CAPITALS[c_i]
            xy == deg_to_mm(m.lon, m.lat)
            cs == NumberPositions(xy[1], xy[2], LastDigitStr, DigitHeight, DigitWidth)
        IN  /\ cs[1][1] > xy[1] /\ cs[1][2] = xy[2]
            /\ cs[2][1] = xy[1] /\ cs[2][2] > xy[2]
            /\ cs[3][1] = xy[1] /\ cs[3][2] < xy[2]
            /\ cs[4][1] < xy[1] /\ cs[4][2] = xy[2]
            /\ (position = None) <=> (\A k \in 1..4 : Collides(cs[k][1], cs[k][2], LastDigitStr))
            /\ position # None =>
                 \E k \in 1..4 :
                    /\ position = cs[k]
                    /\ ~Collides(cs[k][1], cs[k][2], LastDigitStr)
                    /\ \A j \in 1..(k - 1) : Collides(cs[j][1], cs[j][2], LastDigitStr)

(* the number went to the left of the marker: right, top and bottom collide *)
Wit_C6_LeftChosen ==
    /\ c_i >= 1 /\ position # Unset /\ position # None
    /\ position[1] < deg_to_mm(CAPITALS[c_i].lon, CAPITALS[c_i].lat)[1]

-----------------------------------------------------------------------------
(* Claims about the card splitter and the merged mesh *)

(* the card regions whose card_faces_list holds the face at position p *)
CardsHolding(p) == {k \in 1..Len(s_kept) : \E j \in 1..Len(s_kept[k]) : s_kept[k][j] = p}

(* C1: when split_mesh_to_cards has returned, every triangle of the input  *)
(* mesh is in the face list of exactly one card: none dropped, none twice.  *)
Cex_C1_EveryFaceInOneCard ==
    m_pc = "done" => \A p \in 1..Len(all_faces) : Cardinality(CardsHolding(p)) = 1

(* faces over welded vertices: every index replaced by the first index of  *)
(* a vertex with the same coordinates, as a reader of the STL file sees it *)
WeldFaces(m) ==
    LET first == [i \in 1..Len(m.verts) |-> (CHOOSE j \in 1..i : m.verts[j] = m.verts[i]
                                                /\ \A h \in 1..(j - 1) : m.verts[h] # m.verts[i]) - 1]
    IN  [k \in 1..Len(m.faces) |->
            <<first[m.faces[k][1] + 1], first[m.faces[k][2] + 1], first[m.faces[k][3] + 1]>>]

(* C2: every non-empty card returned by split_mesh_to_cards, connectors    *)
(* included, is a closed manifold: each undirected edge of its triangles   *)
(* is shared by exactly two triangles.                                     *)
Cex_C2_CardsClosed ==
    m_pc = "done" =>
        \A k \in 1..Len(cards) : Len(cards[k].verts) > 0 => IsClosed(WeldFaces(cards[k]))

(* the adjacent pairs of the 2x2 layout: card, its neighbour, and the edge *)
(* of each on which they meet                                              *)
AdjacentPairs ==
    { <<0, 1, "right", "left">>, <<0, 2, "top", "bottom">>,
      <<1, 3, "top", "bottom">>, <<2, 3, "right", "left">> }

(* the tabs of a card that stick out of the given edge *)
TabsOn(card, edge) ==
    {k \in 1..Len(card.tabs) :
        LET t == card.tabs[k]
        IN  \/ edge = "right"  /\ t[3] = "right" /\ t[1] = CARD_WIDTH_MM
            \/ edge = "top"    /\ t[3] = "up"    /\ t[2] = CARD_HEIGHT_MM
            \/ edge = "left"   /\ t[3] = "left"  /\ t[1] = 0
            \/ edge = "bottom" /\ t[3] = "down"  /\ t[2] = 0}

(* the slots of a card that open on the given edge *)
SlotsOn(card, edge) ==
    {k \in 1..Len(card.slots) :
        LET sl == card.slots[k]
        IN  /\ sl # None
            /\ \/ edge = "left"   /\ sl[1] = 0
               \/ edge = "bottom" /\ sl[3] = 0
               \/ edge = "right"  /\ sl[2] = CARD_WIDTH_MM
               \/ edge = "top"    /\ sl[4] = CARD_HEIGHT_MM}

(* C3: each adjacent pair of cards, 0-1, 0-2, 1-3 and 2-3, is joined on   *)
(* the shared edge by exactly one tab and exactly one slot, the tab on one *)
(* card and the slot on the other.                                         *)
Thm_C3_OneTabOneSlotPerJoint ==
    m_pc = "done" =>
        \A pr \in AdjacentPairs :
            LET a == cards[pr[1] + 1]
                b == cards[pr[2] + 1]
                ta == Cardinality(TabsOn(a, pr[3]))
                tb == Cardinality(TabsOn(b, pr[4]))
                sa == Cardinality(SlotsOn(a, pr[3]))
                sb == Cardinality(SlotsOn(b, pr[4]))
            IN  (Len(a.verts) > 0 /\ Len(b.verts) > 0) =>
                    /\ ta + tb = 1
                    /\ sa + sb = 1
                    /\ ta = sb
                    /\ tb = sa

Wit_C3_FourCardsJoined ==
    /\ m_pc = "done"
    /\ \A k \in 1..4 : Len(cards[k].verts) > 0
    /\ Cardinality(TabsOn(cards[2], "top")) = 1
    /\ Cardinality(SlotsOn(cards[4], "bottom")) = 1

(* the number of vertices in a list of vertex blocks *)
BlockTotal(blocks) == Len(VStack(blocks))

(* block k of a builder refers only to the vertices of block k *)
BlocksAligned(vert_blocks, face_blocks) ==
    /\ Len(vert_blocks) = Len(face_blocks)
    /\ \A k \in 1..Len(face_blocks) :
            LET before == BlockTotal(SubSeq(vert_blocks, 1, k - 1))
            IN  \A j \in 1..Len(face_blocks[k]) : \A c \in 1..3 :
                    /\ face_blocks[k][j][c] >= before
                    /\ face_blocks[k][j][c] < before + Len(vert_blocks[k])

(* C10: after every append, in main and inside the builders, every face    *)
(* index is smaller than the vertex count, each appended sub-mesh being    *)
(* shifted by exactly the vertices accumulated before it, also when        *)
(* sub-meshes are empty or were skipped.                                   *)
Thm_C10_FaceIndicesInRange ==
    /\ IndicesInRange(all_faces, Len(all_verts))
    /\ BlocksAligned(b_all_verts, b_all_faces)
    /\ b_vert_offset = BlockTotal(b_all_verts)
    /\ BlocksAligned(c_all_verts, c_all_faces)
    /\ c_vert_offset = BlockTotal(c_all_verts)
    /\ b_pc = "done" => IndicesInRange(b_out.faces, Len(b_out.verts))
    /\ c_pc = "done" => IndicesInRange(c_out.faces, Len(c_out.verts))
    /\ \A k \in 1..Len(cards) : IndicesInRange(cards[k].faces, Len(cards[k].verts))

Wit_C10_MergedWithSkippedParts ==
    /\ m_pc = "split"
    /\ \E r \in 1..Len(gdf_filtered) : gdf_filtered[r].type = "None"
    /\ Len(b_all_verts) = 2
    /\ Len(c_out.verts) > 0
    /\ Len(all_verts) = Len(terrain.verts) + Len(b_out.verts) + Len(c_out.verts)
    /\ \E k \in 1..Len(all_faces) : all_faces[k][1] >= Len(terrain.verts) + Len(b_out.verts)

(* the vertex lies in the card's own coordinates, within the card *)
InCardLocal(v) ==
    /\ -SplitTol <= v[1] /\ v[1] <= CARD_WIDTH_MM + SplitTol
    /\ -SplitTol <= v[2] /\ v[2] <= CARD_HEIGHT_MM + SplitTol

(* C14: a card region without triangles gets an empty mesh and the loop    *)
(* goes on: cards has one entry per processed region, in region order, 4   *)
(* when split_mesh_to_cards returns.                                       *)
Thm_C14_EmptyRegionKept ==
    /\ m_pc \in {"split", "done"} => Len(cards) = s_idx
    /\ m_pc = "done" => Len(cards) = 4
    /\ \A k \in 1..Len(cards) :
          IF s_kept[k] = <<>>
          THEN cards[k].verts = <<>> /\ cards[k].faces = <<>>
          ELSE /\ Len(cards[k].faces) >= Len(s_kept[k])
               /\ \A j \in 1..Len(s_kept[k]) : \A c \in 1..3 :
                     LET local  == cards[k].verts[cards[k].faces[j][c] + 1]
                         parent == all_verts[all_faces[s_kept[k][j]][c] + 1]
                     IN  /\ InCardLocal(local)
                         /\ local[1] = parent[1] - card_bounds[k][1]
                         /\ local[2] = parent[2] - card_bounds[k][2]

Wit_C14_EmptyThenFilled ==
    /\ m_pc = "done"
    /\ cards[1].faces = <<>> /\ cards[2].faces = <<>>
    /\ Len(cards[4].faces) > 0

(* C15: while split_mesh_to_cards runs, the vertex and face arrays of the  *)
(* parent mesh and the cards built before stay as they are: a card holds   *)
(* copies, so moving them to card-local coordinates and appending the      *)
(* connectors changes nothing else.                                        *)
Thm_C15_ParentUntouched ==
    [][m_pc = "split" =>
          /\ all_verts' = all_verts
          /\ all_faces' = all_faces
          /\ SubSeq(cards', 1, Len(cards)) = cards]_vars

Wit_C15_CardMovedAndJoined ==
    /\ m_pc = "done"
    /\ Len(s_kept[2]) > 0
    /\ Len(cards[2].faces) > Len(s_kept[2])
    /\ cards[2].verts[cards[2].faces[1][1] + 1] # all_verts[all_faces[s_kept[2][1]][1] + 1]

(* C16: the combined mesh of the end-to-end run, terrain plus one wall     *)
(* ribbon plus one bump, is closed: every edge of the combined triangle    *)
(* set is shared by exactly two triangles.                                 *)
Cex_C16_EndToEndClosed ==
    (m_pc = "split" /\ Len(b_all_verts) = 1 /\ bump_count = 1) =>
        IsClosed(WeldFaces([verts |-> all_verts, faces |-> all_faces]))

(* the points of the ring of a polygon: its coordinates without the        *)
(* repeated last one                                                       *)
RingPoints(poly) ==
    LET coords == ExteriorCoords(poly)
    IN  IF Len(coords) = 0 THEN 0 ELSE Len(coords) - 1

HasWall(poly) == RingPoints(poly) >= 3

(* C17: a ring with fewer than 3 points gives no wall and no error; the    *)
(* walls of the other rings are built, one block per ring with 3 points or *)
(* more, and the faces of each are offset by the vertices of the walls     *)
(* emitted before it only.                                                 *)
Thm_C17_ShortRingSkipped ==
    b_pc \in {"loop", "done"} =>
        LET seen   == AllPolys(SubSeq(gdf_filtered, 1, b_row))
            walled == SelectSeq(seen, HasWall)
        IN  /\ Len(b_all_verts) = Len(walled)
            /\ Len(b_all_faces) = Len(walled)
            /\ \A k \in 1..Len(walled) :
                  LET before == BlockTotal(SubSeq(b_all_verts, 1, k - 1))
                  IN  /\ Len(b_all_verts[k]) = 4 * RingPoints(walled[k])
                      /\ \E j \in 1..Len(b_all_faces[k]) : b_all_faces[k][j][1] = before
                      /\ IndicesInRange(ShiftFaces(b_all_faces[k], -before), Len(b_all_verts[k]))
            /\ b_pc = "done" => Len(b_out.verts) = BlockTotal(b_all_verts)

Wit_C17_WallAfterShortRings ==
    /\ b_pc = "done"
    /\ \E k \in 1..Len(AllPolys(gdf_filtered)) :
          /\ RingPoints(AllPolys(gdf_filtered)[k]) = 2
          /\ \E h \in 1..(k - 1) : RingPoints(AllPolys(gdf_filtered)[h]) = 0
          /\ \E h \in (k + 1)..Len(AllPolys(gdf_filtered)) : HasWall(AllPolys(gdf_filtered)[h])
    /\ Len(b_all_verts) = 2
    /\ b_all_faces[2][1][1] = 16

-----------------------------------------------------------------------------
(* Digit and Braille text: create_digit_mesh, create_braille_dot,           *)
(* create_braille_char, create_braille_text, one character per step.        *)

MaxTextLen == 3

(* active dots per letter: 1, 4 top; 2, 5 middle; 3, 6 bottom *)
BRAILLE ==
    [c \in {"a", "b", "c", "d", "e", "f", "g", "h", "i", "j", "k", "l", "m", "n", "o",
            "p", "q", "r", "s", "t", "u", "v", "w", "x", "y", "z", " "} |->
        CASE c = "a" -> <<1>>
          [] c = "b" -> <<1, 2>>
          [] c = "c" -> <<1, 4>>
          [] c = "d" -> <<1, 4, 5>>
          [] c = "e" -> <<1, 5>>
          [] c = "f" -> <<1, 2, 4>>
          [] c = "g" -> <<1, 2, 4, 5>>
          [] c = "h" -> <<1, 2, 5>>
          [] c = "i" -> <<2, 4>>
          [] c = "j" -> <<2, 4, 5>>
          [] c = "k" -> <<1, 3>>
          [] c = "l" -> <<1, 2, 3>>
          [] c = "m" -> <<1, 3, 4>>
          [] c = "n" -> <<1, 3, 4, 5>>
          [] c = "o" -> <<1, 3, 5>>
          [] c = "p" -> <<1, 2, 3, 4>>
          [] c = "q" -> <<1, 2, 3, 4, 5>>
          [] c = "r" -> <<1, 2, 3, 5>>
          [] c = "s" -> <<2, 3, 4>>
          [] c = "t" -> <<2, 3, 4, 5>>
          [] c = "u" -> <<1, 3, 6>>
          [] c = "v" -> <<1, 2, 3, 6>>
          [] c = "w" -> <<2, 4, 5, 6>>
          [] c = "x" -> <<1, 3, 4, 6>>
          [] c = "y" -> <<1, 3, 4, 5, 6>>
          [] c = "z" -> <<1, 3, 5, 6>>
          [] c = " " -> <<>>]

(* char.lower() on the characters of the texts below *)
Lower(char) ==
    CASE char = "A" -> "a"
      [] char = "L" -> "l"
      [] char = "C" -> "c"
      [] char = "K" -> "k"
      [] char = "R" -> "r"
      [] OTHER -> char

DotSegments == 8

(* small hemisphere: top point, a ring of 8, bottom centre *)
create_braille_dot(x, y, z, radius, height) ==
    [verts |-> << <<x, y, z + height>> >>
               \o [k \in 1..DotSegments |->
                     <<x + Round1000(radius * Cos1000(3 * (k - 1))),
                       y + Round1000(radius * Sin1000(3 * (k - 1))), z>>]
               \o << <<x, y, z>> >>,
     faces |-> [k \in 1..DotSegments |-> <<0, k, 1 + (k % DotSegments)>>]
               \o [k \in 1..DotSegments |-> <<DotSegments + 1, 1 + (k % DotSegments), k>>]]

(* dot_positions: offset of dot 1..6 within the cell *)
dot_positions(cell_width, cell_height) ==
    << <<0, (cell_height * 2) \div 3>>, <<0, cell_height \div 3>>, <<0, 0>>,
       <<(cell_width * 3) \div 5, (cell_height * 2) \div 3>>,
       <<(cell_width * 3) \div 5, cell_height \div 3>>,
       <<(cell_width * 3) \div 5, 0>> >>

(* the dots of a character; a character outside the table has none *)
BrailleDots_full(char) ==
    IF Lower(char) \notin DOMAIN BRAILLE THEN <<1, 2, 3, 4, 5, 6>> ELSE BRAILLE[Lower(char)]
BrailleDots(char) ==
    IF Lower(char) \notin DOMAIN BRAILLE THEN <<>> ELSE BRAILLE[Lower(char)]

create_braille_char(char, x, y, z, cell_width, cell_height) ==
    LET dots == BrailleDots(char)
    IN  AppendAll(NoMesh,
            [k \in 1..Len(dots) |->
                create_braille_dot(x + dot_positions(cell_width, cell_height)[dots[k]][1],
                                   y + dot_positions(cell_width, cell_height)[dots[k]][2],
                                   z, MM, (6 * MM) \div 5)])

CellWidth == 3 * MM
CellHeight == (9 * MM) \div 2
CellSpacing == MM \div 2
DigitThickness == (3 * MM) \div 2
DigitLineWidth == (4 * MM) \div 5
DigitSpacing == (3 * MM) \div 2

DigitTexts == {"1", "4", "8", "x"}
BrailleTexts == {"a", "L", " ", "?"}

RECURSIVE Texts(_, _)
Texts(chars, n) ==
    IF n = 0 THEN {<<>>}
    ELSE Texts(chars, n - 1) \cup {Append(t, c) : t \in Texts(chars, n - 1), c \in chars}

GlyphAnchors == {<<0, 0, 0>>, <<40 * MM, 25 * MM, 3 * MM>>}

GlyphsInit ==
    /\ TerrainIdle /\ NoInputs /\ CapitalsIdle /\ WallsIdle /\ MainIdle
    /\ WavesIdle /\ StlIdle /\ RingIdle /\ MoreIdle
    /\ g_pc = "loop"
    /\ g_kind \in {"create_digit_mesh", "create_braille_text"}
    /\ g_text \in IF g_kind = "create_digit_mesh" THEN Texts(DigitTexts, MaxTextLen)
                  ELSE Texts(BrailleTexts, MaxTextLen)
    /\ g_at \in GlyphAnchors
    /\ GlyphsFresh

(* for idx, digit in enumerate(digit_str) *)
DigitStep ==
    /\ g_pc = "loop" /\ g_kind = "create_digit_mesh"
    /\ g_i < Len(g_text)
    /\ LET total_width == Len(g_text) * (DigitWidth + DigitSpacing) - DigitSpacing
           start_x     == g_at[1] - total_width \div 2
       IN  g_acc' = AppendAll(g_acc,
                        DigitBoxes(g_text[g_i + 1], g_i, start_x, g_at[2], g_at[3],
                                   DigitHeight, DigitWidth, DigitThickness, DigitLineWidth,
                                   DigitSpacing))
    /\ g_i' = g_i + 1
    /\ UNCHANGED <<g_pc, g_kind, g_text, g_at, g_out>>
    /\ UNCHANGED nonGlyphs

(* for i, char in enumerate(text) *)
BrailleStep ==
    /\ g_pc = "loop" /\ g_kind = "create_braille_text"
    /\ g_i < Len(g_text)
    /\ g_acc' = AppendAll(g_acc,
                    <<create_braille_char(g_text[g_i + 1],
                                          g_at[1] + g_i * (CellWidth + CellSpacing),
                                          g_at[2], g_at[3], CellWidth, CellHeight)>>)
    /\ g_i' = g_i + 1
    /\ UNCHANGED <<g_pc, g_kind, g_text, g_at, g_out>>
    /\ UNCHANGED nonGlyphs

(* np.vstack of what was collected, or the empty arrays *)
GlyphReturn ==
    /\ g_pc = "loop"
    /\ g_i = Len(g_text)
    /\ g_out' = g_acc
    /\ g_pc' = "done"
    /\ UNCHANGED <<g_kind, g_text, g_at, g_i, g_acc>>
    /\ UNCHANGED nonGlyphs

GlyphsNext == DigitStep \/ BrailleStep \/ GlyphReturn

SpecGlyphs == GlyphsInit /\ [][GlyphsNext]_vars

(* is the character in the table its renderer looks it up in *)
InTable(kind, char) ==
    IF kind = "create_digit_mesh" THEN char \in DOMAIN DIGIT_SEGMENTS
    ELSE Lower(char) \in DOMAIN BRAILLE

SegmentsOn(digit) == Cardinality({k \in 1..7 : DIGIT_SEGMENTS[digit][k] = 1})

(* vertices a character of the table is drawn with: a box of 8 per segment *)
(* that is on, a dot of 10 per active dot                                  *)
GlyphVertices(kind, char) ==
    IF kind = "create_digit_mesh" THEN 8 * SegmentsOn(char)
    ELSE 10 * Len(BRAILLE[Lower(char)])

RECURSIVE TextVertices(_, _)
TextVertices(kind, text) ==
    IF text = <<>> THEN 0
    ELSE (IF InTable(kind, Head(text)) THEN GlyphVertices(kind, Head(text)) ELSE 0)
         + TextVertices(kind, Tail(text))

(* the place the character at 0-based index i is drawn from: the left end  *)
(* of the digit, the column of dots 1 to 3 of the cell                     *)
GlyphX(kind, text, at, i) ==
    IF kind = "create_digit_mesh"
    THEN at[1] - (Len(text) * (DigitWidth + DigitSpacing) - DigitSpacing) \div 2
         + i * (DigitWidth + DigitSpacing)
    ELSE at[1] + i * (CellWidth + CellSpacing)

(* how far to the right of that place the character reaches, and by how   *)
(* much a stroke or a dot overhangs it                                    *)
GlyphExtent(kind) == IF kind = "create_digit_mesh" THEN DigitWidth ELSE (CellWidth * 3) \div 5
GlyphMargin(kind) == IF kind = "create_digit_mesh" THEN DigitLineWidth \div 2 ELSE MM

(* C18: a character outside the digit table or the Braille table adds no    *)
(* geometry and stops nothing: the loop runs to its return, the mesh holds  *)
(* exactly the vertices of the characters that are in the table, each drawn *)
(* at the place its index in the string gives it.                           *)
Thm_C18_UnknownCharacterSkipped ==
    /\ g_pc = "loop" =>
          /\ Len(g_acc.verts) = TextVertices(g_kind, SubSeq(g_text, 1, g_i))
          /\ IndicesInRange(g_acc.faces, Len(g_acc.verts))
    /\ g_pc = "done" =>
          /\ g_i = Len(g_text)
          /\ Len(g_out.verts) = TextVertices(g_kind, g_text)
          /\ IndicesInRange(g_out.faces, Len(g_out.verts))
          /\ \A i \in 0..(Len(g_text) - 1) :
                InTable(g_kind, g_text[i + 1]) =>
                    LET before == TextVertices(g_kind, SubSeq(g_text, 1, i))
                        left   == GlyphX(g_kind, g_text, g_at, i) - GlyphMargin(g_kind)
                    IN  \A k \in (before + 1)..(before + GlyphVertices(g_kind, g_text[i + 1])) :
                            /\ g_out.verts[k][1] >= left
                            /\ g_out.verts[k][1] <= left + GlyphExtent(g_kind) + 2 * GlyphMargin(g_kind)
                            /\ g_out.verts[k][3] >= g_at[3]

Wit_C18_KnownAfterUnknown ==
    /\ g_pc = "done"
    /\ Len(g_text) = 3
    /\ ~InTable(g_kind, g_text[2])
    /\ InTable(g_kind, g_text[1]) /\ GlyphVertices(g_kind, g_text[1]) > 0
    /\ InTable(g_kind, g_text[3]) /\ GlyphVertices(g_kind, g_text[3]) > 0
    /\ Len(g_out.verts) = GlyphVertices(g_kind, g_text[1]) + GlyphVertices(g_kind, g_text[3])

(* the heights of the grid cells nearest to (x_mm, y_mm): a row whose Y is *)
(* as near to y_mm as any, a column whose X is as near to x_mm as any      *)
NearestHeights(g, x_mm, y_mm) ==
    {g.Z[i][j] : i \in {r \in 1..Len(g.Y) : \A q \in 1..Len(g.Y) : Abs(g.Y[r] - y_mm) <= Abs(g.Y[q] - y_mm)},
                 j \in {c \in 1..Len(g.X) : \A q \in 1..Len(g.X) : Abs(g.X[c] - x_mm) <= Abs(g.X[q] - x_mm)}}

WalledPolys == SelectSeq(AllPolys(SubSeq(gdf_filtered, 1, b_row)), HasWall)

(* the mm position of ring point p (0-based) of a polygon *)
RingPointMM(poly, p) == deg_to_mm(ExteriorCoords(poly)[p + 1][1], ExteriorCoords(poly)[p + 1][2])

(* C19: every wall stands on the terrain: at each ring point the two lower *)
(* wall vertices are at the height of the grid cell nearest to the point   *)
(* and the two upper ones at that height plus BOUNDARY_HEIGHT_MM.          *)
Thm_C19_WallStandsOnTerrain ==
    b_pc \in {"loop", "done"} =>
        \A k \in 1..Len(b_all_verts) :
            /\ k <= Len(WalledPolys)
            /\ \A p \in 0..(RingPoints(WalledPolys[k]) - 1) :
                  \E z \in NearestHeights(grid, RingPointMM(WalledPolys[k], p)[1],
                                          RingPointMM(WalledPolys[k], p)[2]) :
                      /\ 4 * p + 4 <= Len(b_all_verts[k])
                      /\ b_all_verts[k][4 * p + 1][3] = z
                      /\ b_all_verts[k][4 * p + 3][3] = z
                      /\ b_all_verts[k][4 * p + 2][3] = z + BOUNDARY_HEIGHT_MM
                      /\ b_all_verts[k][4 * p + 4][3] = z + BOUNDARY_HEIGHT_MM

Wit_C19_WallOnHill ==
    /\ b_pc = "done"
    /\ \E k \in 1..Len(b_all_verts) :
          /\ b_all_verts[k][1][3] > 0
          /\ \E p \in 1..(Len(b_all_verts[k]) \div 4 - 1) :
                b_all_verts[k][4 * p + 1][3] # b_all_verts[k][1][3]

-----------------------------------------------------------------------------
(* The wall builders on one ring: create_wall_segment of generate.py and    *)
(* create_polygon_wall of mesh_generator.py.                                *)

MaxRingPoints == 4

(* a direction component divided by the length, times 1000; left as it is *)
(* when the length is not above 0.01 mm, which is length 0 here            *)
UnitOf(d, length) == IF length > 0 THEN (d * 1000) \div length ELSE d * 1000

(* _calculate_wall_direction: the mean of the unit directions from the    *)
(* previous point and to the next one, times 1000, i 0-based               *)
calculate_wall_direction(coords_mm, i) ==
    LET n_points == Len(coords_mm)
        prev_i   == (i - 1) % n_points
        next_i   == (i + 1) % n_points
        x        == coords_mm[i + 1][1]
        y        == coords_mm[i + 1][2]
        dx1      == x - coords_mm[prev_i + 1][1]
        dy1      == y - coords_mm[prev_i + 1][2]
        dx2      == coords_mm[next_i + 1][1] - x
        dy2      == coords_mm[next_i + 1][2] - y
        len1     == Sqrt(dx1 * dx1 + dy1 * dy1)
        len2     == Sqrt(dx2 * dx2 + dy2 * dy2)
        avg_dx   == (UnitOf(dx1, len1) + UnitOf(dx2, len2)) \div 2
        avg_dy   == (UnitOf(dy1, len1) + UnitOf(dy2, len2)) \div 2
        avg_len  == Sqrt(avg_dx * avg_dx + avg_dy * avg_dy)
    IN  IF avg_len > 10 THEN <<(avg_dx * 1000) \div avg_len, (avg_dy * 1000) \div avg_len>>
        ELSE <<avg_dx, avg_dy>>

(* _create_wall_points: inner bottom, inner top, outer bottom, outer top *)
create_wall_points(coords_mm, base_elevations, height, width) ==
    Flatten([k \in 1..Len(coords_mm) |->
        LET x      == coords_mm[k][1]
            y      == coords_mm[k][2]
            base_z == base_elevations[k]
            d      == calculate_wall_direction(coords_mm, k - 1)
            px     == ((-d[2]) * (width \div 2)) \div 1000
            py     == (d[1] * (width \div 2)) \div 1000
        IN  << <<x + px, y + py, base_z>>, <<x + px, y + py, base_z + height>>,
               <<x - px, y - py, base_z>>, <<x - px, y - py, base_z + height>> >>])

(* _create_wall_faces: inner, outer, top and bottom between point i and *)
(* the next one                                                          *)
create_wall_faces(n_points) ==
    Flatten([k \in 1..n_points |->
        LET i               == k - 1
            next_i          == (i + 1) % n_points
            curr_inner_low  == i * 4
            curr_inner_high == i * 4 + 1
            curr_outer_low  == i * 4 + 2
            curr_outer_high == i * 4 + 3
            next_inner_low  == next_i * 4
            next_inner_high == next_i * 4 + 1
            next_outer_low  == next_i * 4 + 2
            next_outer_high == next_i * 4 + 3
        IN  << <<curr_inner_low, next_inner_low, curr_inner_high>>,
               <<curr_inner_high, next_inner_low, next_inner_high>>,
               <<curr_outer_low, curr_outer_high, next_outer_low>>,
               <<curr_outer_high, next_outer_high, next_outer_low>>,
               <<curr_inner_high, next_inner_high, curr_outer_high>>,
               <<next_inner_high, next_outer_high, curr_outer_high>>,
               <<curr_inner_low, curr_outer_low, next_inner_low>>,
               <<next_inner_low, curr_outer_low, next_outer_low>> >>])

(* coords_mm without its last point when that repeats the first *)
OpenRing(coords_mm) ==
    IF Len(coords_mm) > 3 /\ coords_mm[1] = coords_mm[Len(coords_mm)]
    THEN SubSeq(coords_mm, 1, Len(coords_mm) - 1)
    ELSE coords_mm

create_polygon_wall(coords_mm, base_elevations, height, width) ==
    IF Len(coords_mm) < 3 THEN NoMesh
    ELSE IF Len(OpenRing(coords_mm)) < 3 THEN NoMesh
    ELSE [verts |-> create_wall_points(OpenRing(coords_mm),
                                       SubSeq(base_elevations, 1, Len(OpenRing(coords_mm))),
                                       height, width),
          faces |-> create_wall_faces(Len(OpenRing(coords_mm)))]

(* ring points in mm, with the terrain height under them *)
RingPool ==
    { <<100 * MM, 100 * MM, 0>>, <<140 * MM, 100 * MM, MM>>, <<140 * MM, 130 * MM, 0>>,
      <<100 * MM, 130 * MM, 2 * MM>>, <<120 * MM, 160 * MM, MM>> }

RECURSIVE Rings(_)
Rings(n) ==
    IF n = 0 THEN {<<>>}
    ELSE Rings(n - 1) \cup {Append(r, q) : r \in {t \in Rings(n - 1) : Len(t) = n - 1}, q \in RingPool}

(* create_wall_segment gets the ring without its repeated last point; *)
(* create_polygon_wall gets it with or without                         *)
RingInit ==
    /\ TerrainIdle /\ NoInputs /\ CapitalsIdle /\ WallsIdle /\ MainIdle
    /\ WavesIdle /\ StlIdle /\ GlyphsIdle /\ MoreIdle
    /\ r_pc = "call"
    /\ r_builder \in {"create_wall_segment", "create_polygon_wall"}
    /\ \E ring \in Rings(MaxRingPoints) :
          \/ r_points = ring
          \/ /\ r_builder = "create_polygon_wall"
             /\ ring # <<>>
             /\ r_points = Append(ring, ring[1])
    /\ r_out = NoMesh

WallSegmentCall ==
    /\ r_pc = "call" /\ r_builder = "create_wall_segment"
    /\ r_out' = create_wall_segment(r_points, BOUNDARY_HEIGHT_MM, BOUNDARY_WIDTH_MM)
    /\ r_pc' = "done"
    /\ UNCHANGED <<r_builder, r_points>>
    /\ UNCHANGED nonRing

PolygonWallCall ==
    /\ r_pc = "call" /\ r_builder = "create_polygon_wall"
    /\ r_out' = create_polygon_wall([k \in 1..Len(r_points) |-> <<r_points[k][1], r_points[k][2]>>],
                                    [k \in 1..Len(r_points) |-> r_points[k][3]],
                                    BOUNDARY_HEIGHT_MM, BOUNDARY_WIDTH_MM)
    /\ r_pc' = "done"
    /\ UNCHANGED <<r_builder, r_points>>
    /\ UNCHANGED nonRing

RingNext == WallSegmentCall \/ PolygonWallCall

SpecRing == RingInit /\ [][RingNext]_vars

(* the ring the builder works on: create_polygon_wall drops a last point *)
(* that repeats the first when more than 3 are given                      *)
RingBuilt ==
    IF /\ r_builder = "create_polygon_wall"
       /\ Len(r_points) > 3
       /\ r_points[1][1] = r_points[Len(r_points)][1]
       /\ r_points[1][2] = r_points[Len(r_points)][2]
    THEN SubSeq(r_points, 1, Len(r_points) - 1)
    ELSE r_points

(* triangles per ring point: create_polygon_wall adds a bottom quad *)
FacesPerPoint == IF r_builder = "create_wall_segment" THEN 6 ELSE 8

(* two triangles that make the quad on the four vertices q *)
IsQuad(f1, f2, q) ==
    /\ Cardinality(q) = 4
    /\ {f1[1], f1[2], f1[3]} \cup {f2[1], f2[2], f2[3]} = q
    /\ Cardinality({f1[1], f1[2], f1[3]} \cap {f2[1], f2[2], f2[3]}) = 2

(* C20: for a ring of n >= 3 points the builder emits 4 vertices per point *)
(* (inner and outer, at the base and at the base plus the wall height) and *)
(* joins point i to point (i + 1) mod n with an inner, an outer and a top  *)
(* quad, 6 triangles per point in create_wall_segment; the last point is   *)
(* joined to the first and every face index is below 4n.                   *)
Thm_C20_RingRibbon ==
    (r_pc = "done" /\ Len(RingBuilt) >= 3) =>
        LET n == Len(RingBuilt)
            v == r_out.verts
            f == r_out.faces
            s == FacesPerPoint
        IN  /\ Len(v) = 4 * n
            /\ Len(f) = s * n
            /\ r_builder = "create_wall_segment" => Len(f) = 6 * n
            /\ IndicesInRange(f, 4 * n)
            /\ \A i \in 0..(n - 1) :
                  LET c == 4 * i
                      m == 4 * ((i + 1) % n)
                  IN  /\ v[c + 1][3] = RingBuilt[i + 1][3]
                      /\ v[c + 3][3] = RingBuilt[i + 1][3]
                      /\ v[c + 2] = <<v[c + 1][1], v[c + 1][2], v[c + 1][3] + BOUNDARY_HEIGHT_MM>>
                      /\ v[c + 4] = <<v[c + 3][1], v[c + 3][2], v[c + 3][3] + BOUNDARY_HEIGHT_MM>>
                      /\ v[c + 1][1] + v[c + 3][1] = 2 * RingBuilt[i + 1][1]
                      /\ v[c + 1][2] + v[c + 3][2] = 2 * RingBuilt[i + 1][2]
                      /\ IsQuad(f[s * i + 1], f[s * i + 2], {c, c + 1, m, m + 1})
                      /\ IsQuad(f[s * i + 3], f[s * i + 4], {c + 2, c + 3, m + 2, m + 3})
                      /\ IsQuad(f[s * i + 5], f[s * i + 6], {c + 1, c + 3, m + 1, m + 3})

Wit_C20_LastJoinedToFirst ==
    /\ r_pc = "done"
    /\ r_builder = "create_wall_segment"
    /\ Len(r_points) = 4
    /\ Len(r_out.verts) = 16
    /\ Len(r_out.faces) = 24
    /\ r_out.faces[19] = <<12, 0, 13>>
    /\ \A a, b \in 1..4 : a # b => r_points[a] # r_points[b]

(* the cells of the grid within d steps of (i, j), a step being a move to *)
(* one of the four neighbours                                              *)
CellsWithin(mask, i, j, d) ==
    {<<a, b>> \in (1..Len(mask)) \X (1..Len(mask[1])) : Abs(a - i) + Abs(b - j) <= d}

(* C21: create_wave_pattern gives no wave height within the erosion        *)
(* buffer of land: every cell with a non-zero wave value has only water    *)
(* cells within 3 steps of it.                                             *)
Thm_C21_NoWavesInErosionBuffer ==
    (w_pc = "done" /\ w_variant = "create_wave_pattern") =>
        \A i \in 1..Len(waves) : \A j \in 1..Len(waves[i]) :
            waves[i][j] # 0 =>
                \A c \in CellsWithin(water_mask, i, j, 3) : water_mask[c[1]][c[2]]

Wit_C21_WaterInBufferCleared ==
    /\ w_pc = "done" /\ w_variant = "create_wave_pattern"
    /\ \E i \in 1..Len(waves) : \E j \in 1..Len(waves[i]) : waves[i][j] # 0
    /\ \E i \in 1..Len(waves) : \E j \in 1..Len(waves[i]) :
          /\ water_mask[i][j]
          /\ WaveValue(w_coord[i]) # 0
          /\ waves[i][j] = 0
          /\ \E c \in CellsWithin(water_mask, i, j, 3) :
                /\ ~water_mask[c[1]][c[2]]
                /\ Abs(c[1] - i) + Abs(c[2] - j) = 3
          /\ \A c \in CellsWithin(water_mask, i, j, 2) : water_mask[c[1]][c[2]]

(* the parent vertices the kept faces of card k (1-based) refer to *)
UsedBy(k) == {all_faces[s_kept[k][j]][c] : j \in 1..Len(s_kept[k]), c \in 1..3}

(* the number of used vertices with a smaller parent index *)
RankIn(used, u) == Cardinality({w \in used : w < u})

(* C22: the kept vertices of a card are renumbered 0..m-1 in ascending     *)
(* order of their parent index, every kept face refers, in input face      *)
(* order, to the renumbered copies of its three vertices, and each copy has *)
(* x and y moved by the minimum corner of the region and z unchanged.      *)
Thm_C22_DenseRemap ==
    \A k \in 1..Len(cards) :
        s_kept[k] # <<>> =>
            LET used == UsedBy(k)
                rank == [u \in used |-> RankIn(used, u)]
            IN  /\ Len(cards[k].verts) >= Cardinality(used)
                /\ Len(cards[k].faces) >= Len(s_kept[k])
                /\ \A u \in used :
                      cards[k].verts[rank[u] + 1]
                        = <<all_verts[u + 1][1] - card_bounds[k][1],
                            all_verts[u + 1][2] - card_bounds[k][2],
                            all_verts[u + 1][3]>>
                /\ \A j \in 1..Len(s_kept[k]) :
                      cards[k].faces[j]
                        = <<rank[all_faces[s_kept[k][j]][1]],
                            rank[all_faces[s_kept[k][j]][2]],
                            rank[all_faces[s_kept[k][j]][3]]>>

Wit_C22_SparseParentIndices ==
    /\ m_pc = "done"
    /\ \E k \in 2..4 :
          /\ Len(s_kept[k]) >= 2
          /\ \E u \in UsedBy(k) : RankIn(UsedBy(k), u) > 0 /\ RankIn(UsedBy(k), u) < u
          /\ \E j \in 1..(Len(s_kept[k]) - 1) : s_kept[k][j + 1] > s_kept[k][j] + 1
          /\ card_bounds[k][1] + card_bounds[k][2] > 0

(* the vertices of card a (0-based) that stick out beyond the given edge,  *)
(* in the local coordinates of card b                                      *)
TabVerticesIn(a, edge, b) ==
    LET ca  == cards[a + 1]
        out(v) == \/ edge = "right" /\ v[1] > CARD_WIDTH_MM + SplitTol
                  \/ edge = "top"   /\ v[2] > CARD_HEIGHT_MM + SplitTol
    IN  {<<ca.verts[k][1] + card_bounds[a + 1][1] - card_bounds[b + 1][1],
           ca.verts[k][2] + card_bounds[a + 1][2] - card_bounds[b + 1][2],
           ca.verts[k][3]>> : k \in {q \in 1..Len(ca.verts) : out(ca.verts[q])}}

(* how far the tab reaches into the receiving card and what it spans along *)
(* the edge: <<depth, low, high>>                                          *)
TabReach(tv, edge) ==
    LET deep  == IF edge = "right" THEN 1 ELSE 2
        along == IF edge = "right" THEN 2 ELSE 1
    IN  <<CHOOSE d \in {v[deep] : v \in tv} : \A v \in tv : v[deep] <= d,
          CHOOSE l \in {v[along] : v \in tv} : \A v \in tv : l <= v[along],
          CHOOSE h \in {v[along] : v \in tv} : \A v \in tv : v[along] <= h>>

(* C23: at every joint the tab, seen from the receiving card, lies inside  *)
(* that card's slot: the slot is the tab footprint made SLOT_CLEARANCE_MM  *)
(* deeper and SLOT_CLEARANCE_MM wider in all, over the height band from    *)
(* -BASE_THICKNESS_MM to -BASE_THICKNESS_MM + TAB_HEIGHT_MM.               *)
Thm_C23_TabInsideSlot ==
    m_pc = "done" =>
        \A pr \in AdjacentPairs :
            (Len(cards[pr[1] + 1].verts) > 0 /\ Len(cards[pr[2] + 1].verts) > 0) =>
                LET tv    == TabVerticesIn(pr[1], pr[3], pr[2])
                    cb    == cards[pr[2] + 1]
                    zb    == -BASE_THICKNESS_MM
                    zt    == -BASE_THICKNESS_MM + TAB_HEIGHT_MM
                IN  /\ tv # {}
                    /\ \A v \in tv : zb <= v[3] /\ v[3] <= zt
                    /\ \E v \in tv : v[3] = zb
                    /\ \E v \in tv : v[3] = zt
                    /\ \E k \in SlotsOn(cb, pr[4]) :
                          LET sl == cb.slots[k]
                              r  == TabReach(tv, pr[3])
                          IN  /\ \A v \in tv : point_in_slot(v[1], v[2], v[3], <<sl>>)
                              /\ IF pr[3] = "right"
                                 THEN sl = <<0, r[1] + SLOT_CLEARANCE_MM,
                                             r[2] - SLOT_CLEARANCE_MM \div 2,
                                             r[3] + SLOT_CLEARANCE_MM \div 2>>
                                 ELSE sl = <<r[2] - SLOT_CLEARANCE_MM \div 2,
                                             r[3] + SLOT_CLEARANCE_MM \div 2,
                                             0, r[1] + SLOT_CLEARANCE_MM>>
                              /\ r[1] = TAB_DEPTH_MM
                              /\ r[3] - r[2] = TAB_WIDTH_MM
                              /\ \E q \in 1..Len(cb.verts) : \E p \in 1..Len(cb.verts) :
                                    /\ cb.verts[q] = <<sl[2], sl[4], zb>>
                                    /\ cb.verts[p] = <<sl[2], sl[4], zt>>

Wit_C23_BothTabsOfCardZero ==
    /\ m_pc = "done"
    /\ \A k \in 1..3 : Len(cards[k].verts) > 0
    /\ Cardinality(TabVerticesIn(0, "right", 1)) = 4
    /\ Cardinality(TabVerticesIn(0, "top", 2)) = 4

(* the inner side wall quads of card k (1-based) on an edge: the groups of *)
(* four vertices after the card's own vertices, its tabs (8 vertices each) *)
(* and its slot walls (12 each) that lie in the plane of the edge, each as *)
(* <<pos1, z1, pos2, z2, bottom at pos2, bottom at pos1>>                  *)
SideWallQuads(k, edge) ==
    LET v     == cards[k].verts
        start == Cardinality(UsedBy(k)) + 8 * Len(cards[k].tabs) + 12 * Len(cards[k].slots)
        n     == (Len(v) - start) \div 4
        fixed == IF edge \in {"left", "right"} THEN 1 ELSE 2
        along == IF edge \in {"left", "right"} THEN 2 ELSE 1
        at    == IF edge \in {"left", "bottom"} THEN 0
                 ELSE IF edge = "right" THEN CARD_WIDTH_MM ELSE CARD_HEIGHT_MM
    IN  {<<v[start + 4 * q + 1][along], v[start + 4 * q + 1][3],
           v[start + 4 * q + 2][along], v[start + 4 * q + 2][3],
           v[start + 4 * q + 3][3], v[start + 4 * q + 4][3]>> :
            q \in {g \in 0..(n - 1) : \A c \in 1..4 : v[start + 4 * g + c][fixed] = at}}

(* the extent along the edge of the slot the card has on it *)
SlotExtent(k, edge) ==
    LET sl == cards[k].slots[CHOOSE q \in SlotsOn(cards[k], edge) : TRUE]
    IN  IF edge = "left" THEN <<sl[3], sl[4]>> ELSE <<sl[1], sl[2]>>

(* C24: on a card edge with a slot, every inner side wall segment that     *)
(* overlaps the slot's extent along the edge ends at the slot top, so the  *)
(* slot's height band stays open there, and every other segment of the     *)
(* edge goes down to the base bottom.                                      *)
Thm_C24_SlotBandOpen ==
    \A k \in 1..Len(cards) : \A edge \in {"left", "bottom"} :
        (s_kept[k] # <<>> /\ SlotsOn(cards[k], edge) # {}) =>
            \A w \in SideWallQuads(k, edge) :
                LET overlaps == w[1] < SlotExtent(k, edge)[2] /\ w[3] > SlotExtent(k, edge)[1]
                    bottom   == IF overlaps THEN -BASE_THICKNESS_MM + TAB_HEIGHT_MM
                                ELSE -BASE_THICKNESS_MM
                IN  /\ w[5] = bottom /\ w[6] = bottom
                    /\ w[2] >= 0 /\ w[4] >= 0

Wit_C24_OpenAndSolidSegments ==
    /\ m_pc = "done"
    /\ s_kept[4] # <<>>
    /\ \A edge \in {"left", "bottom"} :
          /\ \E w \in SideWallQuads(4, edge) : w[5] = -BASE_THICKNESS_MM + TAB_HEIGHT_MM
          /\ \E w \in SideWallQuads(4, edge) : w[5] = -BASE_THICKNESS_MM
    /\ \E w \in SideWallQuads(4, "left") : w[2] > 0

-----------------------------------------------------------------------------
(* The sign-based water mask: main of create_3d_map.py and main of         *)
(* diagnose_full_process.py take it from the loaded elevation.             *)

MaxElevN == 2

(* heights in metres: below, at and above sea level *)
ElevLevels == {-50, 0, 120}

ElevGrids == UNION {[1..rows -> [1..cols -> ElevLevels]] : rows \in 1..MaxElevN, cols \in 1..MaxElevN}

WaterInit ==
    /\ TerrainIdle /\ NoInputs /\ CapitalsIdle /\ WallsIdle /\ MainIdle
    /\ WavesIdle /\ StlIdle /\ GlyphsIdle /\ RingIdle /\ LinesIdle /\ LegendIdle
    /\ e_pc = "mask"
    /\ e_script \in {"create_3d_map", "diagnose_full_process"}
    /\ elevation \in ElevGrids
    /\ elev_water_mask = <<>>

(* water_mask = elevation < 0 *)
MapWaterMask ==
    /\ e_pc = "mask" /\ e_script = "create_3d_map"
    /\ elev_water_mask' = [i \in 1..Len(elevation) |-> [j \in 1..Len(elevation[i]) |->
                              elevation[i][j] < 0]]
    /\ e_pc' = "done"
    /\ UNCHANGED <<e_script, elevation>>
    /\ UNCHANGED nonWater

(* water_mask_from_elev = (elevation <= 0) *)
DiagnoseWaterMask ==
    /\ e_pc = "mask" /\ e_script = "diagnose_full_process"
    /\ elev_water_mask' = [i \in 1..Len(elevation) |-> [j \in 1..Len(elevation[i]) |->
                              elevation[i][j] <= 0]]
    /\ e_pc' = "done"
    /\ UNCHANGED <<e_script, elevation>>
    /\ UNCHANGED nonWater

WaterNext == MapWaterMask \/ DiagnoseWaterMask

SpecWater == WaterInit /\ [][WaterNext]_vars

(* C25: under the sign-based policy a cell is water exactly when its       *)
(* height is <= 0, so a cell at height 0 is water.                         *)
Cex_C25_ZeroHeightIsWater ==
    e_pc = "done" =>
        \A i \in 1..Len(elevation) : \A j \in 1..Len(elevation[i]) :
            elev_water_mask[i][j] <=> elevation[i][j] <= 0

-----------------------------------------------------------------------------
(* create_tactile_wave_lines (create_3d_model/water_processor.py).         *)
(* Longitudes and latitudes are whole numbers of a unit fine enough for    *)
(* every quantity of the function to be whole on the grids below; no row   *)
(* latitude and no sample longitude other than lon_min falls exactly on a  *)
(* grid line, so np.searchsorted never depends on floating-point rounding. *)

WAVE_WIDTH_MM == 50
WAVE_SEGMENT_LENGTH_MM == 200

(* map_width_mm = 400.0 *)
map_width_mm == 400 * MM

(* test_points = 5 *)
test_points == 5

(* num_points = 15 *)
num_points == 15

(* lon_grid[0, :]: a single column, or four columns *)
LonLines == {<<0>>, <<0, 56000, 112000, 168000>>}

(* lat_grid[:, 0]: a single row, or five rows *)
LatLines == {<<0>>, <<0, 1720, 3440, 5160, 6880>>}

MaskKinds == {"sea", "land", "west", "south"}

LineMask(kind, nlat, nlon) ==
    [i \in 1..nlat |-> [j \in 1..nlon |->
        CASE kind = "sea" -> TRUE
          [] kind = "land" -> FALSE
          [] kind = "west" -> j <= 2
          [] OTHER -> i <= 2]]

SeqMin(q) == CHOOSE m \in {q[k] : k \in 1..Len(q)} : \A k \in 1..Len(q) : m <= q[k]

SeqMax(q) == CHOOSE m \in {q[k] : k \in 1..Len(q)} : \A k \in 1..Len(q) : m >= q[k]

(* map_width_deg = lon_max - lon_min *)
map_width_deg == SeqMax(lon_line) - SeqMin(lon_line)

(* wave_interval_deg = wave_interval_mm * mm_to_deg_ratio *)
wave_interval_deg == (WAVE_INTERVAL_MM * map_width_deg) \div map_width_mm

(* segment_length_deg = segment_length_mm * mm_to_deg_ratio *)
segment_length_deg == (WAVE_SEGMENT_LENGTH_MM * map_width_deg) \div map_width_mm

(* amplitude_deg = wave_interval_deg * 0.05 *)
amplitude_deg == wave_interval_deg \div 20

(* np.searchsorted(a, v): the number of elements of a below v *)
searchsorted(a, v) == Cardinality({k \in 1..Len(a) : a[k] < v})

(* 0 <= lat_idx < water_mask.shape[0] and 0 <= lon_idx < water_mask.shape[1] *)
(* and water_mask[lat_idx, lon_idx]                                          *)
PointOnWater(lon, lat) ==
    LET lat_idx == searchsorted(lat_line, lat)
        lon_idx == searchsorted(lon_line, lon)
    IN  /\ lat_idx < Len(line_mask)
        /\ lon_idx < Len(line_mask[1])
        /\ line_mask[lat_idx + 1][lon_idx + 1]

(* the five test points of a segment *)
segment_has_water ==
    \E i \in 0..(test_points - 1) :
        PointOnWater(current_lon + (i * segment_length_deg) \div (test_points - 1), current_lat)

(* 1000 * sin(2 * pi * k / 7): frequency 2 over the 14 intervals of a segment *)
Sin7 == <<0, 782, 975, 434, -434, -975, -782>>

(* lon_points = np.linspace(...), lat_points = current_lat + amplitude_deg * np.sin(...) *)
SamplePoint(k) ==
    <<current_lon + (k * segment_length_deg) \div (num_points - 1),
      current_lat + Round1000(amplitude_deg * Sin7[(k % 7) + 1]),
      WAVE_HEIGHT_MM>>

(* the sample points that lie on water *)
line_points ==
    SelectSeq([k \in 1..num_points |-> SamplePoint(k - 1)],
              LAMBDA pt : PointOnWater(pt[1], pt[2]))

LinesInit ==
    /\ TerrainIdle /\ NoInputs /\ CapitalsIdle /\ WallsIdle /\ MainIdle
    /\ WavesIdle /\ StlIdle /\ GlyphsIdle /\ RingIdle /\ WaterIdle /\ LegendIdle
    /\ l_pc = "rows"
    /\ lon_line \in LonLines
    /\ lat_line \in LatLines
    /\ line_mask \in {LineMask(kind, Len(lat_line), Len(lon_line)) : kind \in MaskKinds}
    /\ current_lat = SeqMin(lat_line) + wave_interval_deg
    /\ current_lon = SeqMin(lon_line)
    /\ wave_lines = <<>>

(* while current_lat < lat_max - wave_interval_deg: current_lon = lon_min *)
NextRow ==
    /\ l_pc = "rows"
    /\ current_lat < SeqMax(lat_line) - wave_interval_deg
    /\ current_lon' = SeqMin(lon_line)
    /\ l_pc' = "segments"
    /\ UNCHANGED <<lon_line, lat_line, line_mask, current_lat, wave_lines>>
    /\ UNCHANGED nonLines

(* one pass of the body of while current_lon < lon_max - segment_length_deg *)
Segment ==
    /\ l_pc = "segments"
    /\ current_lon < SeqMax(lon_line) - segment_length_deg
    /\ wave_lines' = IF segment_has_water /\ Len(line_points) > 3
                     THEN Append(wave_lines, [points |-> line_points,
                                              height |-> WAVE_HEIGHT_MM,
                                              width |-> WAVE_WIDTH_MM])
                     ELSE wave_lines
    /\ current_lon' = current_lon + (segment_length_deg * 3) \div 2
    /\ UNCHANGED <<l_pc, lon_line, lat_line, line_mask, current_lat>>
    /\ UNCHANGED nonLines

(* the inner while ends: current_lat += wave_interval_deg *)
EndRow ==
    /\ l_pc = "segments"
    /\ ~(current_lon < SeqMax(lon_line) - segment_length_deg)
    /\ current_lat' = current_lat + wave_interval_deg
    /\ l_pc' = "rows"
    /\ UNCHANGED <<lon_line, lat_line, line_mask, current_lon, wave_lines>>
    /\ UNCHANGED nonLines

(* the outer while ends: return wave_lines *)
LinesReturn ==
    /\ l_pc = "rows"
    /\ ~(current_lat < SeqMax(lat_line) - wave_interval_deg)
    /\ l_pc' = "done"
    /\ UNCHANGED <<lon_line, lat_line, line_mask, current_lat, current_lon, wave_lines>>
    /\ UNCHANGED nonLines

LinesNext == NextRow \/ Segment \/ EndRow \/ LinesReturn

SpecLines == LinesInit /\ [][LinesNext]_vars

(* the function runs on, single-threaded, until it returns *)
SpecLinesFair == LinesInit /\ [][LinesNext]_vars /\ WF_vars(LinesNext)

(* the longitude at which an appended segment begins *)
SegmentStart(seg) == seg.points[1][1]

(* the wave row an appended segment belongs to *)
RowOf(seg) == (seg.points[1][2] - SeqMin(lat_line) + amplitude_deg) \div wave_interval_deg

(* C27: the wave segments of consecutive wave rows start at different      *)
(* offsets along the row, so no segment of a row starts at the longitude   *)
(* at which a segment of the next row starts.                              *)
Cex_C27_RowsPhaseOffset ==
    \A a, b \in 1..Len(wave_lines) :
        RowOf(wave_lines[b]) = RowOf(wave_lines[a]) + 1 =>
            SegmentStart(wave_lines[a]) # SegmentStart(wave_lines[b])

(* C30: create_tactile_wave_lines terminates for every grid and water      *)
(* mask, a grid of zero longitude extent or zero latitude extent included: *)
(* every run reaches the return.                                           *)
Cex_C30_LinesTerminate == <>(l_pc = "done")

(* str(current_number) of a label: one or two characters, all digits *)
IsNumberStr(text) ==
    /\ Len(text) \in {1, 2}
    /\ \A k \in 1..Len(text) : text[k] \in DOMAIN DIGIT_SEGMENTS

(* C28: the digit geometry that create_digit_mesh emits for a label at a   *)
(* position lies entirely inside the bounding box that get_digit_bbox      *)
(* gives for that number at that position (the box check_number_collision  *)
(* tested), for one-digit and for two-digit numbers alike.                 *)
Cex_C28_DigitsInsideTestedBox ==
    (g_pc = "done" /\ g_kind = "create_digit_mesh" /\ IsNumberStr(g_text)) =>
        LET bb == get_digit_bbox(g_text, g_at[1], g_at[2], DigitHeight, DigitWidth)
        IN  \A k \in 1..Len(g_out.verts) :
                /\ bb.min_x <= g_out.verts[k][1] /\ g_out.verts[k][1] <= bb.max_x
                /\ bb.min_y <= g_out.verts[k][2] /\ g_out.verts[k][2] <= bb.max_y

(* find_number_position was called for the marker: it was numbered or skipped *)
ConsideredForNumber(name) ==
    \/ \E j \in 1..Len(number_legend) : number_legend[j][2] = name
    \/ \E j \in 1..Len(skipped_names) : skipped_names[j] = name

-----------------------------------------------------------------------------
(* create_legend_card *)

MaxLegend == 25

(* names of the legend entries, as sequences of characters *)
LegendNames ==
    { <<"R", "o", "m", "e">>,
      <<"K", "u", "w", "a", "i", "t", " ", "C", "i", "t", "y">> }

(* the legend create_capitals_mesh returns: numbers 1, 2, ... in order *)
Legends == {[k \in 1..n |-> <<k, name>>] : n \in 0..MaxLegend, name \in LegendNames}

(* create_braille_text *)
create_braille_text(text, x, y, z, cell_width, cell_height, spacing) ==
    AppendAll(NoMesh,
        [i \in 1..Len(text) |->
            create_braille_char(text[i], x + (i - 1) * (cell_width + spacing), y, z,
                                cell_width, cell_height)])

(* cols = 2, rows = 12 *)
LegendCols == 2
LegendRows == 12

(* max_chars = 12 *)
max_chars == 12

(* name[:max_chars].lower() *)
short_name(name) ==
    [k \in 1..(IF Len(name) < max_chars THEN Len(name) ELSE max_chars) |-> Lower(name[k])]

(* x = col * col_width + 5 with col = idx // rows, col_width = width / cols *)
LegendX(idx) == (idx \div LegendRows) * (CARD_WIDTH_MM \div LegendCols) + 5 * MM

(* y = start_y - row * row_height with row = idx % rows,                   *)
(* row_height = (height - 35) / rows, start_y = height - 12                *)
LegendY(idx) ==
    (CARD_HEIGHT_MM - 12 * MM) - ((idx % LegendRows) * (CARD_HEIGHT_MM - 35 * MM)) \div LegendRows

(* the base plate *)
LegendBase ==
    [verts |-> << <<0, 0, -BASE_THICKNESS_MM>>, <<CARD_WIDTH_MM, 0, -BASE_THICKNESS_MM>>,
                  <<CARD_WIDTH_MM, CARD_HEIGHT_MM, -BASE_THICKNESS_MM>>,
                  <<0, CARD_HEIGHT_MM, -BASE_THICKNESS_MM>>,
                  <<0, 0, 0>>, <<CARD_WIDTH_MM, 0, 0>>,
                  <<CARD_WIDTH_MM, CARD_HEIGHT_MM, 0>>, <<0, CARD_HEIGHT_MM, 0>> >>,
     faces |-> << <<0, 2, 1>>, <<0, 3, 2>>, <<4, 5, 6>>, <<4, 6, 7>>,
                  <<0, 1, 5>>, <<0, 5, 4>>, <<2, 3, 7>>, <<2, 7, 6>>,
                  <<0, 4, 7>>, <<0, 7, 3>>, <<1, 2, 6>>, <<1, 6, 5>> >>]

(* the number and the Braille name of entry idx (0-based) *)
LegendEntry(idx, num, name) ==
    << create_digit_mesh(Str(num), LegendX(idx) + 5 * MM, LegendY(idx), 0,
                         5 * MM, 3 * MM, (5 * MM) \div 2, MM, (3 * MM) \div 2),
       create_braille_text(short_name(name), LegendX(idx) + 18 * MM, LegendY(idx) - 2 * MM, 0,
                           (5 * MM) \div 2, 4 * MM, (3 * MM) \div 10) >>

(* 1000 * sin(seg * 2 * pi / 5) *)
Sin5 == <<0, 951, 588, -588, -951>>

(* sample_y = 8, sample_height = 10, sample_width = 25, wave_segments = 20 *)
sample_y == 8 * MM
sample_height == 10 * MM
sample_width == 25 * MM
wave_segments == 20

(* the three sinusoidal sample waves at water_x = 10 *)
SampleWaves ==
    [k \in 1..(3 * wave_segments) |->
        LET wave_i == (k - 1) \div wave_segments
            seg    == (k - 1) % wave_segments
            wave_base_y == sample_y + (wave_i * 7 * MM) \div 2
        IN  create_segment_box(
                10 * MM + seg * (sample_width \div wave_segments),
                wave_base_y + Round1000(((4 * MM) \div 5) * Sin5[(seg % 5) + 1]),
                10 * MM + (seg + 1) * (sample_width \div wave_segments),
                wave_base_y + Round1000(((4 * MM) \div 5) * Sin5[((seg + 1) % 5) + 1]),
                0, WAVE_HEIGHT_MM, (4 * MM) \div 5)]

(* the texture samples with their labels "sea", "border", "city" *)
LegendSamples ==
    LET label_y == sample_y + sample_height + 3 * MM
    IN  SampleWaves
        \o << create_braille_text(<<"s", "e", "a">>, 10 * MM, label_y, 0,
                                  CellWidth, CellHeight, CellSpacing),
              create_segment_box(70 * MM + sample_width \div 2, sample_y,
                                 70 * MM + sample_width \div 2, sample_y + sample_height,
                                 0, BOUNDARY_HEIGHT_MM, BOUNDARY_WIDTH_MM),
              create_braille_text(<<"b", "o", "r", "d", "e", "r">>, 70 * MM, label_y, 0,
                                  CellWidth, CellHeight, CellSpacing),
              create_capital_bump(140 * MM, sample_y + sample_height \div 2, 0,
                                  CAPITAL_DIAMETER_MM \div 2, CAPITAL_HEIGHT_MM),
              create_braille_text(<<"c", "i", "t", "y">>, 140 * MM - 5 * MM, label_y, 0,
                                  CellWidth, CellHeight, CellSpacing) >>

(* all_verts / all_faces / vert_offset after appending the non-empty parts *)
AppendParts(acc, meshes) ==
    LET parts == SelectSeq(meshes, LAMBDA m : Len(m.verts) > 0)
    IN  [verts |-> acc.verts \o [k \in 1..Len(parts) |-> parts[k].verts],
         faces |-> acc.faces \o [k \in 1..Len(parts) |->
                       ShiftFaces(parts[k].faces, acc.off + VertsBefore(parts, k))],
         off |-> acc.off + VertsBefore(parts, Len(parts) + 1)]

LegendInit ==
    /\ TerrainIdle /\ NoInputs /\ CapitalsIdle /\ WallsIdle /\ MainIdle
    /\ WavesIdle /\ StlIdle /\ GlyphsIdle /\ RingIdle /\ WaterIdle /\ LinesIdle
    /\ k_pc = "loop"
    /\ k_legend \in Legends
    /\ k_idx = 0
    /\ k_all_verts = <<LegendBase.verts>>
    /\ k_all_faces = <<LegendBase.faces>>
    /\ k_vert_offset = Len(LegendBase.verts)
    /\ k_out = NoMesh

(* one iteration of: for idx, (num, name) in enumerate(number_legend) *)
LegendStep ==
    /\ k_pc = "loop"
    /\ k_idx < Len(k_legend)
    /\ LET acc == AppendParts([verts |-> k_all_verts, faces |-> k_all_faces, off |-> k_vert_offset],
                              LegendEntry(k_idx, k_legend[k_idx + 1][1], k_legend[k_idx + 1][2]))
       IN  /\ k_all_verts' = acc.verts
           /\ k_all_faces' = acc.faces
           /\ k_vert_offset' = acc.off
    /\ k_idx' = k_idx + 1
    /\ UNCHANGED <<k_pc, k_legend, k_out>>
    /\ UNCHANGED nonLegend

(* the texture samples, then np.vstack and return *)
LegendReturn ==
    /\ k_pc = "loop"
    /\ k_idx = Len(k_legend)
    /\ LET acc == AppendParts([verts |-> k_all_verts, faces |-> k_all_faces, off |-> k_vert_offset],
                              LegendSamples)
       IN  /\ k_all_verts' = acc.verts
           /\ k_all_faces' = acc.faces
           /\ k_vert_offset' = acc.off
           /\ k_out' = [verts |-> VStack(acc.verts), faces |-> VStack(acc.faces)]
    /\ k_pc' = "done"
    /\ UNCHANGED <<k_legend, k_idx>>
    /\ UNCHANGED nonLegend

LegendNext == LegendStep \/ LegendReturn

SpecLegend == LegendInit /\ [][LegendNext]_vars

(* the vertex lies within [0, CARD_WIDTH_MM] x [0, CARD_HEIGHT_MM] *)
OnCard(v) == 0 <= v[1] /\ v[1] <= CARD_WIDTH_MM /\ 0 <= v[2] /\ v[2] <= CARD_HEIGHT_MM

(* C29: create_legend_card places every legend entry, its number and its   *)
(* Braille name, inside the card's planar extent                           *)
(* [0, CARD_WIDTH_MM] x [0, CARD_HEIGHT_MM], for every legend length: each  *)
(* entry's position and every vertex emitted for it lie on the card.       *)
Cex_C29_LegendEntriesOnCard ==
    /\ \A idx \in 0..(k_idx - 1) :
          /\ OnCard(<<LegendX(idx) + 5 * MM, LegendY(idx)>>)
          /\ OnCard(<<LegendX(idx) + 18 * MM, LegendY(idx) - 2 * MM>>)
    /\ \A p \in 1..Len(k_all_verts) : \A k \in 1..Len(k_all_verts[p]) : OnCard(k_all_verts[p][k])


=============================================================================
